---- MODULE Spec2Model ----
(***************************************************************************)
(* Stellar HTLC contract (smartcontracts/stellar/src/lib.rs): the swap     *)
(* lifecycle state machine, the resolver registry and the configuration,   *)
(* over the Soroban instance and persistent storage of storage_new.rs.     *)
(* One action per contract entry point. A call that panics is rolled back  *)
(* by the host: it changes no storage and only its outcome is recorded     *)
(* in `last`.                                                              *)
(***************************************************************************)
EXTENDS Integers, Sequences, FiniteSets, TLC

VARIABLES
    now,          \* env.ledger().timestamp()
    instance,     \* env.storage().instance(): StorageKey -> value
    swaps,        \* env.storage().persistent(): StorageKey::Swap(id) -> Swap
    resolvers,    \* env.storage().persistent(): StorageKey::Resolver(addr) -> ResolverInfo
    user_swaps,   \* env.storage().persistent(): StorageKey::UserSwaps(addr) -> Vec<String>
    last,         \* the last contract call and its outcome
    claims_ok,    \* history: successful claim_swap calls per swap id
    refunds_ok,   \* history: successful refund_swap calls per swap id
    transfers,    \* history: token transfers the contract invoked
    old_instance,   \* legacy contract (lib_old.rs): env.storage().instance()
    old_swaps,      \* legacy contract: StorageKey::Swap(id) -> Swap
    old_resolvers,  \* legacy contract: StorageKey::Resolver(addr) -> ResolverInfo
    old_user_swaps, \* legacy contract: StorageKey::UserSwaps(addr) -> Vec<BytesN<32>>
    old_last        \* legacy contract: the last call and its outcome

\* The storage of the legacy contract.
old_vars == <<old_instance, old_swaps, old_resolvers, old_user_swaps, old_last>>

\* The storage of the current contract, with its history.
new_vars == <<instance, swaps, resolvers, user_swaps, last, claims_ok, refunds_ok, transfers>>

vars == <<now, instance, swaps, resolvers, user_swaps, last, claims_ok, refunds_ok, transfers, old_instance, old_swaps, old_resolvers, old_user_swaps, old_last>>

----------------------------------------------------------------------------
(* Bounds of the model and the inputs the calls are drawn from.            *)

\* How many of the ledger close times of TimeLine the model runs through.
MaxLedgers == 2

\* Ledger close times, of both parities: 3601 is exactly the shortest timelock
\* of a swap created at 0, and 7202 that of a swap created at 3601.
TimeLine == <<0, 3601, 7202, 7203>>

LedgerTimes == {TimeLine[i] : i \in 1..MaxLedgers}

\* alice sends, bob receives (and sends to himself), carol administers and resolves.
Addresses == {"alice", "bob", "carol"}

\* BytesN<32> values.
Bytes32 == 0..1

\* create_swap arguments <<sender, recipient, hashlock, timelock - now, amount,
\* resolver_address>>: two accepted shapes (the second names a resolver), one at
\* the rejected minimum timelock, one with the rejected amount.
CreateArgs ==
    { <<"alice", "bob", 1, 3601, 1000000, <<>> >>,
      <<"bob", "bob", 0, 3601, 1000000, <<"carol">> >>,
      <<"alice", "bob", 1, 3600, 1000000, <<>> >>,
      <<"alice", "bob", 1, 3601, 0, <<>> >> }

\* initialize arguments <<admin, fee_recipient, protocol_fee_bps>>.
InitArgs == {<<"carol", "carol", 30>>, <<"alice", "alice", 30>>, <<"carol", "bob", 501>>}

\* update_protocol_fee arguments.
FeeUpdates == {500, 501}

\* register_resolver arguments.
ResolverAddrs == {"carol"}

Collaterals == {0, 1}

SwapIds == {"swap_even", "swap_odd"}

----------------------------------------------------------------------------
(* Option<T>, and a key-value store.                                       *)

None == <<>>

Some(x) == <<x>>

IsSome(o) == Len(o) = 1

Unwrap(o) == o[1]

Empty == [k \in {} |-> 0]

Put(f, k, v) == [x \in (DOMAIN f) \cup {k} |-> IF x = k THEN v ELSE f[x]]

----------------------------------------------------------------------------
(* storage_new.rs                                                          *)

has_admin == "Admin" \in DOMAIN instance

get_admin == instance["Admin"]

get_fee_recipient == instance["FeeRecipient"]

get_protocol_fee_bps ==
    IF "ProtocolFeeBps" \in DOMAIN instance THEN instance["ProtocolFeeBps"] ELSE 30

get_swap_counter ==
    IF "SwapCounter" \in DOMAIN instance THEN instance["SwapCounter"] ELSE 0

get_total_swaps_created ==
    IF "TotalSwapsCreated" \in DOMAIN instance THEN instance["TotalSwapsCreated"] ELSE 0

get_total_swaps_completed ==
    IF "TotalSwapsCompleted" \in DOMAIN instance THEN instance["TotalSwapsCompleted"] ELSE 0

get_swap(swap_id) == IF swap_id \in DOMAIN swaps THEN Some(swaps[swap_id]) ELSE None

get_resolver(resolver) ==
    IF resolver \in DOMAIN resolvers THEN Some(resolvers[resolver]) ELSE None

get_user_swap_ids(user) == IF user \in DOMAIN user_swaps THEN user_swaps[user] ELSE <<>>

\* Mutant: the identifier pushed at the front of the list.
add_user_swap_AtFront(user, swap_id) == Put(user_swaps, user, <<swap_id>> \o get_user_swap_ids(user))

\* Mutant: the identifier pushed twice.
add_user_swap_Twice(user, swap_id) ==
    Put(user_swaps, user, Append(Append(get_user_swap_ids(user), swap_id), swap_id))

add_user_swap(user, swap_id) == Put(user_swaps, user, Append(get_user_swap_ids(user), swap_id))

----------------------------------------------------------------------------
(* External collaborators.                                                 *)

\* env.crypto().sha256 on 32-byte values
sha256(b) == (b + 1) % 2

\* Address::require_auth: the call carries the authorization of `caller`.
require_auth(addr, caller) == addr = caller

----------------------------------------------------------------------------
(* lib.rs                                                                  *)

\* What a call leaves for its caller to see: the entry point, the swap it names
\* (or derives) and "Ok" or the error it failed with.
Call(op, id, err) == [op |-> op, id |-> id, err |-> err]

\* The identifier is the parity of the ledger timestamp; the digest of the
\* sequence, timestamp, amount and hashlock is computed and dropped.
generate_swap_id(sender, recipient, token, amount, hashlock) ==
    IF now % 2 = 0 THEN "swap_even" ELSE "swap_odd"

\* Mutant: the fee cap of lib.rs:45 dropped.
initialize_result_NoFeeCap(caller, admin, fee_recipient, protocol_fee_bps) ==
    IF ~require_auth(admin, caller) THEN "AuthError"
    ELSE "Ok"

initialize_result(caller, admin, fee_recipient, protocol_fee_bps) ==
    IF ~require_auth(admin, caller) THEN "AuthError"
    ELSE IF protocol_fee_bps > 500 THEN "InvalidFee"
    ELSE "Ok"

initialize_store(admin, fee_recipient, protocol_fee_bps) ==
    LET i1 == Put(instance, "Admin", admin)
        i2 == Put(i1, "FeeRecipient", fee_recipient)
        i3 == Put(i2, "ProtocolFeeBps", protocol_fee_bps)
        i4 == Put(i3, "SwapCounter", 0)
        i5 == Put(i4, "TotalSwapsCreated", 0)
    IN  Put(i5, "TotalSwapsCompleted", 0)

initialize(caller, admin, fee_recipient, protocol_fee_bps) ==
    LET err == initialize_result(caller, admin, fee_recipient, protocol_fee_bps) IN
    /\ last' = Call("initialize", "none", err)
    /\ instance' = IF err = "Ok"
                   THEN initialize_store(admin, fee_recipient, protocol_fee_bps)
                   ELSE instance
    /\ UNCHANGED <<now, swaps, resolvers, user_swaps, claims_ok, refunds_ok, transfers>>

\* Mutant: the existence check of lib.rs:123 dropped.
create_swap_result_Overwrite(caller, sender, recipient, hashlock, timelock, token, amount, resolver_address) ==
    IF ~require_auth(sender, caller) THEN "AuthError"
    ELSE IF amount <= 0 THEN "InvalidAmount"
    ELSE IF timelock <= now + 3600 THEN "InvalidTimelock"
    ELSE IF timelock > now + 604800 THEN "InvalidTimelock"
    ELSE IF IsSome(resolver_address) /\ ~IsSome(get_resolver(Unwrap(resolver_address)))
         THEN "ResolverNotActive"
    ELSE "Ok"

\* Mutant: the upper end of the timelock window excluded (>= for > at lib.rs:103).
create_swap_result_MaxExclusive(caller, sender, recipient, hashlock, timelock, token, amount, resolver_address) ==
    IF ~require_auth(sender, caller) THEN "AuthError"
    ELSE IF amount <= 0 THEN "InvalidAmount"
    ELSE IF timelock <= now + 3600 THEN "InvalidTimelock"
    ELSE IF timelock >= now + 604800 THEN "InvalidTimelock"
    ELSE IF IsSome(resolver_address) /\ ~IsSome(get_resolver(Unwrap(resolver_address)))
         THEN "ResolverNotActive"
    ELSE IF IsSome(get_swap(generate_swap_id(sender, recipient, token, amount, hashlock)))
         THEN "SwapAlreadyExists"
    ELSE "Ok"

\* Mutant: the timelock window checked before the amount (lib.rs:99-105 ahead of lib.rs:94).
create_swap_result_TimelockFirst(caller, sender, recipient, hashlock, timelock, token, amount, resolver_address) ==
    IF ~require_auth(sender, caller) THEN "AuthError"
    ELSE IF timelock <= now + 3600 THEN "InvalidTimelock"
    ELSE IF timelock > now + 604800 THEN "InvalidTimelock"
    ELSE IF amount <= 0 THEN "InvalidAmount"
    ELSE IF IsSome(resolver_address) /\ ~IsSome(get_resolver(Unwrap(resolver_address)))
         THEN "ResolverNotActive"
    ELSE IF IsSome(get_swap(generate_swap_id(sender, recipient, token, amount, hashlock)))
         THEN "SwapAlreadyExists"
    ELSE "Ok"

create_swap_result(caller, sender, recipient, hashlock, timelock, token, amount, resolver_address) ==
    IF ~require_auth(sender, caller) THEN "AuthError"
    ELSE IF amount <= 0 THEN "InvalidAmount"
    ELSE IF timelock <= now + 3600 THEN "InvalidTimelock"
    ELSE IF timelock > now + 604800 THEN "InvalidTimelock"
    ELSE IF IsSome(resolver_address) /\ ~IsSome(get_resolver(Unwrap(resolver_address)))
         THEN "ResolverNotActive"
    ELSE IF IsSome(get_swap(generate_swap_id(sender, recipient, token, amount, hashlock)))
         THEN "SwapAlreadyExists"
    ELSE "Ok"

\* Mutant: the protocol fee deducted from the stored amount.
new_swap_NetOfFee(swap_id, sender, recipient, hashlock, timelock, token, amount, eth_contract, eth_chain_id, resolver_address) ==
    [id |-> swap_id, sender |-> sender, recipient |-> recipient, token |-> token,
     amount |-> amount - (amount * get_protocol_fee_bps) \div 10000,
     hashlock |-> hashlock, timelock |-> timelock,
     status |-> "Pending", created_at |-> now, claimed_at |-> None,
     refunded_at |-> None, preimage |-> None, eth_contract |-> eth_contract,
     eth_chain_id |-> eth_chain_id, resolver |-> resolver_address]

new_swap(swap_id, sender, recipient, hashlock, timelock, token, amount, eth_contract, eth_chain_id, resolver_address) ==
    [id |-> swap_id, sender |-> sender, recipient |-> recipient, token |-> token,
     amount |-> amount, hashlock |-> hashlock, timelock |-> timelock,
     status |-> "Pending", created_at |-> now, claimed_at |-> None,
     refunded_at |-> None, preimage |-> None, eth_contract |-> eth_contract,
     eth_chain_id |-> eth_chain_id, resolver |-> resolver_address]

\* Mutant: the counter written at lib.rs:117 kept when the existence check of
\* lib.rs:123 fails.
create_swap_CounterKept(caller, sender, recipient, hashlock, timelock, token, amount, eth_contract, eth_chain_id, resolver_address) ==
    LET err == create_swap_result(caller, sender, recipient, hashlock, timelock,
                                  token, amount, resolver_address)
        swap_id == generate_swap_id(sender, recipient, token, amount, hashlock)
    IN
    /\ last' = Call("create_swap", swap_id, err)
    /\ IF err = "Ok"
       THEN /\ swaps' = Put(swaps, swap_id,
                            new_swap(swap_id, sender, recipient, hashlock, timelock, token,
                                     amount, eth_contract, eth_chain_id, resolver_address))
            /\ user_swaps' = add_user_swap(sender, swap_id)
            /\ instance' = Put(Put(instance, "SwapCounter", get_swap_counter + 1),
                               "TotalSwapsCreated", get_total_swaps_created + 1)
       ELSE /\ UNCHANGED <<swaps, user_swaps>>
            /\ instance' = IF err = "SwapAlreadyExists"
                           THEN Put(instance, "SwapCounter", get_swap_counter + 1)
                           ELSE instance
    /\ UNCHANGED <<now, resolvers, claims_ok, refunds_ok, transfers>>

create_swap(caller, sender, recipient, hashlock, timelock, token, amount, eth_contract, eth_chain_id, resolver_address) ==
    LET err == create_swap_result(caller, sender, recipient, hashlock, timelock,
                                  token, amount, resolver_address)
        swap_id == generate_swap_id(sender, recipient, token, amount, hashlock)
    IN
    /\ last' = Call("create_swap", swap_id, err)
    /\ IF err = "Ok"
       THEN /\ swaps' = Put(swaps, swap_id,
                            new_swap(swap_id, sender, recipient, hashlock, timelock, token,
                                     amount, eth_contract, eth_chain_id, resolver_address))
            /\ user_swaps' = add_user_swap(sender, swap_id)
            /\ instance' = Put(Put(instance, "SwapCounter", get_swap_counter + 1),
                               "TotalSwapsCreated", get_total_swaps_created + 1)
       ELSE UNCHANGED <<swaps, user_swaps, instance>>
    /\ UNCHANGED <<now, resolvers, claims_ok, refunds_ok, transfers>>

\* Mutant: the preimage check of lib.rs:198 dropped.
claim_swap_result_NoPreimageCheck(caller, swap_id, preimage) ==
    IF ~IsSome(get_swap(swap_id)) THEN "SwapNotFound"
    ELSE IF swaps[swap_id].status = "Claimed" THEN "AlreadyClaimed"
    ELSE IF swaps[swap_id].status = "Refunded" THEN "AlreadyRefunded"
    ELSE IF now >= swaps[swap_id].timelock THEN "TimelockExpired"
    ELSE IF ~require_auth(swaps[swap_id].recipient, caller) THEN "AuthError"
    ELSE "Ok"

\* Mutant: the timelock check of lib.rs:191 off by one (> for >=).
claim_swap_result_LateClaim(caller, swap_id, preimage) ==
    IF ~IsSome(get_swap(swap_id)) THEN "SwapNotFound"
    ELSE IF swaps[swap_id].status = "Claimed" THEN "AlreadyClaimed"
    ELSE IF swaps[swap_id].status = "Refunded" THEN "AlreadyRefunded"
    ELSE IF now > swaps[swap_id].timelock THEN "TimelockExpired"
    ELSE IF sha256(preimage) # swaps[swap_id].hashlock THEN "InvalidPreimage"
    ELSE IF ~require_auth(swaps[swap_id].recipient, caller) THEN "AuthError"
    ELSE "Ok"

\* Mutant: the recipient's require_auth of lib.rs:203 dropped.
claim_swap_result_NoAuth(caller, swap_id, preimage) ==
    IF ~IsSome(get_swap(swap_id)) THEN "SwapNotFound"
    ELSE IF swaps[swap_id].status = "Claimed" THEN "AlreadyClaimed"
    ELSE IF swaps[swap_id].status = "Refunded" THEN "AlreadyRefunded"
    ELSE IF now >= swaps[swap_id].timelock THEN "TimelockExpired"
    ELSE IF sha256(preimage) # swaps[swap_id].hashlock THEN "InvalidPreimage"
    ELSE "Ok"

\* Mutant: the preimage verified before the timelock (lib.rs:198 ahead of lib.rs:190).
claim_swap_result_PreimageFirst(caller, swap_id, preimage) ==
    IF ~IsSome(get_swap(swap_id)) THEN "SwapNotFound"
    ELSE IF swaps[swap_id].status = "Claimed" THEN "AlreadyClaimed"
    ELSE IF swaps[swap_id].status = "Refunded" THEN "AlreadyRefunded"
    ELSE IF sha256(preimage) # swaps[swap_id].hashlock THEN "InvalidPreimage"
    ELSE IF now >= swaps[swap_id].timelock THEN "TimelockExpired"
    ELSE IF ~require_auth(swaps[swap_id].recipient, caller) THEN "AuthError"
    ELSE "Ok"

\* Mutant: the recipient's authorization required before the preimage is
\* verified (lib.rs:203 ahead of lib.rs:195).
claim_swap_result_AuthFirst(caller, swap_id, preimage) ==
    IF ~IsSome(get_swap(swap_id)) THEN "SwapNotFound"
    ELSE IF swaps[swap_id].status = "Claimed" THEN "AlreadyClaimed"
    ELSE IF swaps[swap_id].status = "Refunded" THEN "AlreadyRefunded"
    ELSE IF now >= swaps[swap_id].timelock THEN "TimelockExpired"
    ELSE IF ~require_auth(swaps[swap_id].recipient, caller) THEN "AuthError"
    ELSE IF sha256(preimage) # swaps[swap_id].hashlock THEN "InvalidPreimage"
    ELSE "Ok"

claim_swap_result(caller, swap_id, preimage) ==
    IF ~IsSome(get_swap(swap_id)) THEN "SwapNotFound"
    ELSE IF swaps[swap_id].status = "Claimed" THEN "AlreadyClaimed"
    ELSE IF swaps[swap_id].status = "Refunded" THEN "AlreadyRefunded"
    ELSE IF now >= swaps[swap_id].timelock THEN "TimelockExpired"
    ELSE IF sha256(preimage) # swaps[swap_id].hashlock THEN "InvalidPreimage"
    ELSE IF ~require_auth(swaps[swap_id].recipient, caller) THEN "AuthError"
    ELSE "Ok"

\* Mutant: the claim time not recorded.
claimed_swap_NoClaimedAt(swap, preimage) ==
    [swap EXCEPT !.status = "Claimed", !.preimage = Some(preimage)]

claimed_swap(swap, preimage) ==
    [swap EXCEPT !.status = "Claimed", !.claimed_at = Some(now), !.preimage = Some(preimage)]

\* The token transfer is a TODO in claim_swap: no transfer is invoked.
claim_swap(caller, swap_id, preimage) ==
    LET err == claim_swap_result(caller, swap_id, preimage) IN
    /\ last' = Call("claim_swap", swap_id, err)
    /\ IF err = "Ok"
       THEN /\ swaps' = Put(swaps, swap_id, claimed_swap(swaps[swap_id], preimage))
            /\ instance' = Put(instance, "TotalSwapsCompleted", get_total_swaps_completed + 1)
            /\ claims_ok' = [claims_ok EXCEPT ![swap_id] = @ + 1]
       ELSE UNCHANGED <<swaps, instance, claims_ok>>
    /\ UNCHANGED <<now, resolvers, user_swaps, refunds_ok, transfers>>

\* Mutant: the Claimed check of lib.rs:236 dropped.
refund_swap_result_NoClaimedCheck(caller, swap_id) ==
    IF ~IsSome(get_swap(swap_id)) THEN "SwapNotFound"
    ELSE IF swaps[swap_id].status = "Refunded" THEN "AlreadyRefunded"
    ELSE IF now < swaps[swap_id].timelock THEN "TimelockNotExpired"
    ELSE IF ~require_auth(swaps[swap_id].sender, caller) THEN "AuthError"
    ELSE "Ok"

\* Mutant: the refund refused at the timelock itself (<= for < at lib.rs:246).
refund_swap_result_NotAtTimelock(caller, swap_id) ==
    IF ~IsSome(get_swap(swap_id)) THEN "SwapNotFound"
    ELSE IF swaps[swap_id].status = "Claimed" THEN "AlreadyClaimed"
    ELSE IF swaps[swap_id].status = "Refunded" THEN "AlreadyRefunded"
    ELSE IF now <= swaps[swap_id].timelock THEN "TimelockNotExpired"
    ELSE IF ~require_auth(swaps[swap_id].sender, caller) THEN "AuthError"
    ELSE "Ok"

\* Mutant: the refund kept for swaps that are still Pending.
refund_swap_result_PendingOnly(caller, swap_id) ==
    IF ~IsSome(get_swap(swap_id)) THEN "SwapNotFound"
    ELSE IF swaps[swap_id].status = "Claimed" THEN "AlreadyClaimed"
    ELSE IF swaps[swap_id].status = "Refunded" THEN "AlreadyRefunded"
    ELSE IF swaps[swap_id].status # "Pending" THEN "InvalidStatus"
    ELSE IF now < swaps[swap_id].timelock THEN "TimelockNotExpired"
    ELSE IF ~require_auth(swaps[swap_id].sender, caller) THEN "AuthError"
    ELSE "Ok"

\* Mutant: a refund refused once any swap of the registry was claimed.
refund_swap_result_WhileNoneClaimed(caller, swap_id) ==
    IF ~IsSome(get_swap(swap_id)) THEN "SwapNotFound"
    ELSE IF \E other \in DOMAIN swaps : swaps[other].status = "Claimed" THEN "AlreadyClaimed"
    ELSE IF swaps[swap_id].status = "Refunded" THEN "AlreadyRefunded"
    ELSE IF now < swaps[swap_id].timelock THEN "TimelockNotExpired"
    ELSE IF ~require_auth(swaps[swap_id].sender, caller) THEN "AuthError"
    ELSE "Ok"

refund_swap_result(caller, swap_id) ==
    IF ~IsSome(get_swap(swap_id)) THEN "SwapNotFound"
    ELSE IF swaps[swap_id].status = "Claimed" THEN "AlreadyClaimed"
    ELSE IF swaps[swap_id].status = "Refunded" THEN "AlreadyRefunded"
    ELSE IF now < swaps[swap_id].timelock THEN "TimelockNotExpired"
    ELSE IF ~require_auth(swaps[swap_id].sender, caller) THEN "AuthError"
    ELSE "Ok"

\* Mutant: the refund time not recorded.
refunded_swap_NoRefundedAt(swap) ==
    [swap EXCEPT !.status = "Refunded"]

refunded_swap(swap) ==
    [swap EXCEPT !.status = "Refunded", !.refunded_at = Some(now)]

\* The token transfer back to the sender is a TODO in refund_swap.
refund_swap(caller, swap_id) ==
    LET err == refund_swap_result(caller, swap_id) IN
    /\ last' = Call("refund_swap", swap_id, err)
    /\ IF err = "Ok"
       THEN /\ swaps' = Put(swaps, swap_id, refunded_swap(swaps[swap_id]))
            /\ refunds_ok' = [refunds_ok EXCEPT ![swap_id] = @ + 1]
       ELSE UNCHANGED <<swaps, refunds_ok>>
    /\ UNCHANGED <<now, instance, resolvers, user_swaps, claims_ok, transfers>>

\* Mutant: a min_collateral of zero accepted (< for <= at lib.rs:283).
register_resolver_result_ZeroAccepted(caller, resolver, collateral_token, min_collateral) ==
    IF ~has_admin THEN "Panic"
    ELSE IF ~require_auth(get_admin, caller) THEN "AuthError"
    ELSE IF min_collateral < 0 THEN "InsufficientCollateral"
    ELSE "Ok"

register_resolver_result(caller, resolver, collateral_token, min_collateral) ==
    IF ~has_admin THEN "Panic"
    ELSE IF ~require_auth(get_admin, caller) THEN "AuthError"
    ELSE IF min_collateral <= 0 THEN "InsufficientCollateral"
    ELSE "Ok"

new_resolver(resolver, collateral_token, min_collateral) ==
    [resolver |-> resolver, collateral_token |-> collateral_token,
     min_collateral |-> min_collateral, is_active |-> TRUE, total_resolved |-> 0,
     created_at |-> now]

register_resolver(caller, resolver, collateral_token, min_collateral) ==
    LET err == register_resolver_result(caller, resolver, collateral_token, min_collateral) IN
    /\ last' = Call("register_resolver", "none", err)
    /\ resolvers' = IF err = "Ok"
                    THEN Put(resolvers, resolver,
                             new_resolver(resolver, collateral_token, min_collateral))
                    ELSE resolvers
    /\ UNCHANGED <<now, instance, swaps, user_swaps, claims_ok, refunds_ok, transfers>>

update_protocol_fee_result(caller, new_fee_bps) ==
    IF ~has_admin THEN "Panic"
    ELSE IF ~require_auth(get_admin, caller) THEN "AuthError"
    ELSE IF new_fee_bps > 500 THEN "InvalidFee"
    ELSE "Ok"

update_protocol_fee(caller, new_fee_bps) ==
    LET err == update_protocol_fee_result(caller, new_fee_bps) IN
    /\ last' = Call("update_protocol_fee", "none", err)
    /\ instance' = IF err = "Ok" THEN Put(instance, "ProtocolFeeBps", new_fee_bps) ELSE instance
    /\ UNCHANGED <<now, swaps, resolvers, user_swaps, claims_ok, refunds_ok, transfers>>

\* Mutant: the Claimed check of lib.rs:338 dropped.
mark_swap_failed_result_NoClaimedCheck(caller, swap_id) ==
    IF ~has_admin THEN "Panic"
    ELSE IF ~require_auth(get_admin, caller) THEN "AuthError"
    ELSE IF ~IsSome(get_swap(swap_id)) THEN "SwapNotFound"
    ELSE IF swaps[swap_id].status = "Refunded" THEN "AlreadyRefunded"
    ELSE "Ok"

mark_swap_failed_result(caller, swap_id) ==
    IF ~has_admin THEN "Panic"
    ELSE IF ~require_auth(get_admin, caller) THEN "AuthError"
    ELSE IF ~IsSome(get_swap(swap_id)) THEN "SwapNotFound"
    ELSE IF swaps[swap_id].status = "Claimed" THEN "AlreadyClaimed"
    ELSE IF swaps[swap_id].status = "Refunded" THEN "AlreadyRefunded"
    ELSE "Ok"

\* Mutant: the failure stamped into refunded_at as well.
failed_swap_Stamped(swap) == [swap EXCEPT !.status = "Failed", !.refunded_at = Some(now)]

failed_swap(swap) == [swap EXCEPT !.status = "Failed"]

mark_swap_failed(caller, swap_id) ==
    LET err == mark_swap_failed_result(caller, swap_id) IN
    /\ last' = Call("mark_swap_failed", swap_id, err)
    /\ swaps' = IF err = "Ok" THEN Put(swaps, swap_id, failed_swap(swaps[swap_id])) ELSE swaps
    /\ UNCHANGED <<now, instance, resolvers, user_swaps, claims_ok, refunds_ok, transfers>>

\* The ledger closes: the timestamp moves to a later close time.
Tick ==
    /\ \E t \in LedgerTimes : t > now /\ now' = t
    /\ last' = Call("tick", "none", "Ok")
    /\ UNCHANGED <<instance, swaps, resolvers, user_swaps, claims_ok, refunds_ok, transfers>>

----------------------------------------------------------------------------

\* The legacy contract after deployment, before any call.
OldInit ==
    /\ old_instance = Empty
    /\ old_swaps = Empty
    /\ old_resolvers = Empty
    /\ old_user_swaps = Empty
    /\ old_last = Call("deploy", None, "Ok")

Init ==
    /\ OldInit
    /\ now = TimeLine[1]
    /\ instance = Empty
    /\ swaps = Empty
    /\ resolvers = Empty
    /\ user_swaps = Empty
    /\ last = Call("deploy", "none", "Ok")
    /\ claims_ok = [i \in SwapIds |-> 0]
    /\ refunds_ok = [i \in SwapIds |-> 0]
    /\ transfers = <<>>

Next ==
    \/ \E caller \in Addresses, a \in InitArgs :
            initialize(caller, a[1], a[2], a[3]) /\ UNCHANGED old_vars
    \/ \E caller \in Addresses, a \in CreateArgs :
            /\ create_swap(caller, a[1], a[2], a[3], now + a[4], "token", a[5], "eth", 1, a[6])
            /\ UNCHANGED old_vars
    \/ \E caller \in Addresses, swap_id \in SwapIds, preimage \in Bytes32 :
            claim_swap(caller, swap_id, preimage) /\ UNCHANGED old_vars
    \/ \E caller \in Addresses, swap_id \in SwapIds :
            refund_swap(caller, swap_id) /\ UNCHANGED old_vars
    \/ \E caller \in Addresses, r \in ResolverAddrs, c \in Collaterals :
            register_resolver(caller, r, "token", c) /\ UNCHANGED old_vars
    \/ \E caller \in Addresses, fee \in FeeUpdates :
            update_protocol_fee(caller, fee) /\ UNCHANGED old_vars
    \/ \E caller \in Addresses, swap_id \in SwapIds :
            mark_swap_failed(caller, swap_id) /\ UNCHANGED old_vars
    \/ Tick /\ UNCHANGED old_vars

Spec == Init /\ [][Next]_vars

----------------------------------------------------------------------------
(* The legacy contract: types_old.rs, storage_old.rs, lib_old.rs.         *)

MIN_TIMELOCK_DURATION == 3600

MAX_TIMELOCK_DURATION == 604800

MIN_RESOLVER_COLLATERAL == 1000000

old_has_admin == "Admin" \in DOMAIN old_instance

old_get_admin == old_instance["Admin"]

old_get_fee_recipient == old_instance["FeeRecipient"]

old_get_protocol_fee_bps ==
    IF "ProtocolFeeBps" \in DOMAIN old_instance THEN old_instance["ProtocolFeeBps"] ELSE 30

old_get_swap_counter ==
    IF "SwapCounter" \in DOMAIN old_instance THEN old_instance["SwapCounter"] ELSE 0

old_get_total_swaps_created ==
    IF "TotalSwapsCreated" \in DOMAIN old_instance THEN old_instance["TotalSwapsCreated"] ELSE 0

old_get_total_swaps_completed ==
    IF "TotalSwapsCompleted" \in DOMAIN old_instance THEN old_instance["TotalSwapsCompleted"] ELSE 0

get_total_swaps_refunded ==
    IF "TotalSwapsRefunded" \in DOMAIN old_instance THEN old_instance["TotalSwapsRefunded"] ELSE 0

get_total_fees_collected ==
    IF "TotalFeesCollected" \in DOMAIN old_instance THEN old_instance["TotalFeesCollected"] ELSE 0

has_swap(swap_id) == swap_id \in DOMAIN old_swaps

old_get_swap(swap_id) == IF has_swap(swap_id) THEN Some(old_swaps[swap_id]) ELSE None

old_get_resolver(resolver) ==
    IF resolver \in DOMAIN old_resolvers THEN Some(old_resolvers[resolver]) ELSE None

\* Mutant: a registered resolver taken as active whatever its flag.
is_resolver_active_AnyRegistered(resolver) ==
    IsSome(old_get_resolver(resolver))

is_resolver_active(resolver) ==
    IF IsSome(old_get_resolver(resolver)) THEN old_resolvers[resolver].is_active ELSE FALSE

\* The resolver records after increment_resolver_swaps on `res`.
increment_resolver_swaps(res, resolver) ==
    IF resolver \in DOMAIN res
    THEN [res EXCEPT ![resolver].total_swaps = @ + 1]
    ELSE res

\* The resolver records after increment_resolver_successful_swaps on `res`.
increment_resolver_successful_swaps(res, resolver) ==
    IF resolver \in DOMAIN res
    THEN [res EXCEPT ![resolver].successful_swaps = @ + 1]
    ELSE res

old_get_user_swaps(user) ==
    IF user \in DOMAIN old_user_swaps THEN old_user_swaps[user] ELSE <<>>

old_add_user_swap(user, swap_id) ==
    Put(old_user_swaps, user, Append(old_get_user_swaps(user), swap_id))

\* The sha256 digest of the concatenated fields (the contract address is the
\* same in every call): a digest without collisions, written as what it digests.
old_generate_swap_id(recipient, token, amount, hashlock, timelock, counter) ==
    <<recipient, token, amount, hashlock, timelock, counter, now>>

old_initialize_result(caller, admin, fee_recipient, protocol_fee_bps) ==
    IF ~require_auth(admin, caller) THEN "AuthError"
    ELSE IF protocol_fee_bps > 500 THEN "InvalidFee"
    ELSE "Ok"

old_initialize_store(admin, fee_recipient, protocol_fee_bps) ==
    [k \in DOMAIN old_instance \cup {"Admin", "FeeRecipient", "ProtocolFeeBps", "SwapCounter", "TotalSwapsCreated", "TotalSwapsCompleted", "TotalSwapsRefunded", "TotalFeesCollected"} |->
        CASE k = "Admin" -> admin
          [] k = "FeeRecipient" -> fee_recipient
          [] k = "ProtocolFeeBps" -> protocol_fee_bps
          [] OTHER -> 0]

old_initialize(caller, admin, fee_recipient, protocol_fee_bps) ==
    LET err == old_initialize_result(caller, admin, fee_recipient, protocol_fee_bps) IN
    /\ old_last' = Call("initialize", None, err)
    /\ old_instance' = IF err = "Ok"
                       THEN old_initialize_store(admin, fee_recipient, protocol_fee_bps)
                       ELSE old_instance
    /\ UNCHANGED <<now, old_swaps, old_resolvers, old_user_swaps>>

\* Mutant: the fee rounded up instead of truncated.
protocol_fee_of_RoundUp(amount, protocol_fee_bps) ==
    (amount * protocol_fee_bps + 9999) \div 10000

\* lib_old.rs:107-109: the fee in i128, truncated by the integer division.
protocol_fee_of(amount, protocol_fee_bps) == (amount * protocol_fee_bps) \div 10000

net_amount_of(amount, protocol_fee_bps) == amount - protocol_fee_of(amount, protocol_fee_bps)

\* Mutant: an amount of zero accepted (< for <= at lib_old.rs:83).
initialize_swap_result_ZeroAmount(caller, recipient, token, amount, hashlock, timelock, resolver) ==
    IF amount < 0 THEN "InvalidAmount"
    ELSE IF timelock <= now + MIN_TIMELOCK_DURATION THEN "InvalidTimelock"
    ELSE IF timelock > now + MAX_TIMELOCK_DURATION THEN "InvalidTimelock"
    ELSE IF IsSome(resolver) /\ ~is_resolver_active(Unwrap(resolver)) THEN "ResolverNotActive"
    ELSE IF has_swap(old_generate_swap_id(recipient, token, amount, hashlock, timelock, old_get_swap_counter + 1))
         THEN "SwapAlreadyExists"
    ELSE "Ok"

initialize_swap_result(caller, recipient, token, amount, hashlock, timelock, resolver) ==
    IF amount <= 0 THEN "InvalidAmount"
    ELSE IF timelock <= now + MIN_TIMELOCK_DURATION THEN "InvalidTimelock"
    ELSE IF timelock > now + MAX_TIMELOCK_DURATION THEN "InvalidTimelock"
    ELSE IF IsSome(resolver) /\ ~is_resolver_active(Unwrap(resolver)) THEN "ResolverNotActive"
    ELSE IF has_swap(old_generate_swap_id(recipient, token, amount, hashlock, timelock, old_get_swap_counter + 1))
         THEN "SwapAlreadyExists"
    ELSE "Ok"

old_new_swap(swap_id, caller, recipient, token, amount, hashlock, timelock, resolver, eth_tx_hash) ==
    [id |-> swap_id,
     sender |-> caller,
     recipient |-> recipient,
     token |-> token,
     amount |-> net_amount_of(amount, old_get_protocol_fee_bps),
     hashlock |-> hashlock,
     timelock |-> timelock,
     claimed |-> FALSE,
     refunded |-> FALSE,
     preimage |-> 0,
     created_at |-> now,
     eth_tx_hash |-> eth_tx_hash,
     resolver |-> resolver,
     protocol_fee |-> protocol_fee_of(amount, old_get_protocol_fee_bps),
     status |-> "Active"]

\* The instance storage after a successful initialize_swap.
initialize_swap_counters(amount) ==
    LET fee == protocol_fee_of(amount, old_get_protocol_fee_bps)
        i1 == Put(old_instance, "SwapCounter", old_get_swap_counter + 1)
        i2 == IF fee > 0 THEN Put(i1, "TotalFeesCollected", get_total_fees_collected + fee) ELSE i1
    IN Put(i2, "TotalSwapsCreated", old_get_total_swaps_created + 1)

initialize_swap(caller, recipient, token, amount, hashlock, timelock, resolver, eth_tx_hash) ==
    LET err == initialize_swap_result(caller, recipient, token, amount, hashlock, timelock, resolver)
        swap_id == old_generate_swap_id(recipient, token, amount, hashlock, timelock, old_get_swap_counter + 1)
    IN
    /\ old_last' = Call("initialize_swap", IF err = "Ok" THEN swap_id ELSE None, err)
    /\ IF err = "Ok"
       THEN /\ old_swaps' = Put(old_swaps, swap_id, old_new_swap(swap_id, caller, recipient, token, amount, hashlock, timelock, resolver, eth_tx_hash))
            /\ old_user_swaps' = old_add_user_swap(caller, swap_id)
            /\ old_instance' = initialize_swap_counters(amount)
            /\ old_resolvers' = IF IsSome(resolver)
                                THEN increment_resolver_swaps(old_resolvers, Unwrap(resolver))
                                ELSE old_resolvers
       ELSE UNCHANGED <<old_swaps, old_user_swaps, old_instance, old_resolvers>>
    /\ UNCHANGED now

old_register_resolver_result(caller, resolver, collateral_amount) ==
    IF ~old_has_admin THEN "Panic"
    ELSE IF ~require_auth(old_get_admin, caller) THEN "AuthError"
    ELSE IF collateral_amount < MIN_RESOLVER_COLLATERAL THEN "InsufficientCollateral"
    ELSE "Ok"

old_new_resolver(collateral_amount) ==
    [collateral |-> collateral_amount,
     is_active |-> TRUE,
     total_swaps |-> 0,
     successful_swaps |-> 0,
     registered_at |-> now]

\* Mutant: a registration of a resolver that has a record only reactivates it.
old_register_resolver_KeepsHistory(caller, resolver, collateral_amount) ==
    LET err == old_register_resolver_result(caller, resolver, collateral_amount) IN
    /\ old_last' = Call("register_resolver", None, err)
    /\ old_resolvers' = IF err # "Ok" THEN old_resolvers
                        ELSE IF resolver \in DOMAIN old_resolvers
                        THEN [old_resolvers EXCEPT ![resolver].is_active = TRUE,
                                                   ![resolver].collateral = collateral_amount]
                        ELSE Put(old_resolvers, resolver, old_new_resolver(collateral_amount))
    /\ UNCHANGED <<now, old_instance, old_swaps, old_user_swaps>>

old_register_resolver(caller, resolver, collateral_amount) ==
    LET err == old_register_resolver_result(caller, resolver, collateral_amount) IN
    /\ old_last' = Call("register_resolver", None, err)
    /\ old_resolvers' = IF err = "Ok"
                        THEN Put(old_resolvers, resolver, old_new_resolver(collateral_amount))
                        ELSE old_resolvers
    /\ UNCHANGED <<now, old_instance, old_swaps, old_user_swaps>>

deactivate_resolver_result(caller, resolver) ==
    IF ~old_has_admin THEN "Panic"
    ELSE IF ~require_auth(old_get_admin, caller) THEN "AuthError"
    ELSE IF ~IsSome(old_get_resolver(resolver)) THEN "ResolverNotFound"
    ELSE "Ok"

\* Mutant: the deactivation also clears the resolver's swap counter.
deactivate_resolver_ClearsCounter(caller, resolver) ==
    LET err == deactivate_resolver_result(caller, resolver) IN
    /\ old_last' = Call("deactivate_resolver", None, err)
    /\ old_resolvers' = IF err = "Ok"
                        THEN [old_resolvers EXCEPT ![resolver].is_active = FALSE,
                                                   ![resolver].total_swaps = 0]
                        ELSE old_resolvers
    /\ UNCHANGED <<now, old_instance, old_swaps, old_user_swaps>>

deactivate_resolver(caller, resolver) ==
    LET err == deactivate_resolver_result(caller, resolver) IN
    /\ old_last' = Call("deactivate_resolver", None, err)
    /\ old_resolvers' = IF err = "Ok"
                        THEN [old_resolvers EXCEPT ![resolver].is_active = FALSE]
                        ELSE old_resolvers
    /\ UNCHANGED <<now, old_instance, old_swaps, old_user_swaps>>

old_update_protocol_fee_result(caller, new_fee_bps) ==
    IF ~old_has_admin THEN "Panic"
    ELSE IF ~require_auth(old_get_admin, caller) THEN "AuthError"
    ELSE IF new_fee_bps > 500 THEN "InvalidFee"
    ELSE "Ok"

old_update_protocol_fee(caller, new_fee_bps) ==
    LET err == old_update_protocol_fee_result(caller, new_fee_bps) IN
    /\ old_last' = Call("update_protocol_fee", None, err)
    /\ old_instance' = IF err = "Ok"
                       THEN Put(old_instance, "ProtocolFeeBps", new_fee_bps)
                       ELSE old_instance
    /\ UNCHANGED <<now, old_swaps, old_resolvers, old_user_swaps>>

\* Mutant: the claim refused while the resolver the swap names is not active.
claim_funds_result_ActiveResolver(caller, swap_id, preimage) ==
    IF ~IsSome(old_get_swap(swap_id)) THEN "SwapNotFound"
    ELSE IF old_swaps[swap_id].claimed THEN "AlreadyClaimed"
    ELSE IF old_swaps[swap_id].refunded THEN "AlreadyRefunded"
    ELSE IF now >= old_swaps[swap_id].timelock THEN "TimelockExpired"
    ELSE IF sha256(preimage) # old_swaps[swap_id].hashlock THEN "InvalidPreimage"
    ELSE IF ~require_auth(old_swaps[swap_id].recipient, caller) THEN "AuthError"
    ELSE IF IsSome(old_swaps[swap_id].resolver) /\ ~is_resolver_active(Unwrap(old_swaps[swap_id].resolver))
         THEN "ResolverNotActive"
    ELSE "Ok"

\* Mutant: the claim still accepted at the timelock itself (> for >= at lib_old.rs:217).
claim_funds_result_AtTimelock(caller, swap_id, preimage) ==
    IF ~IsSome(old_get_swap(swap_id)) THEN "SwapNotFound"
    ELSE IF old_swaps[swap_id].claimed THEN "AlreadyClaimed"
    ELSE IF old_swaps[swap_id].refunded THEN "AlreadyRefunded"
    ELSE IF now > old_swaps[swap_id].timelock THEN "TimelockExpired"
    ELSE IF sha256(preimage) # old_swaps[swap_id].hashlock THEN "InvalidPreimage"
    ELSE IF ~require_auth(old_swaps[swap_id].recipient, caller) THEN "AuthError"
    ELSE "Ok"

claim_funds_result(caller, swap_id, preimage) ==
    IF ~IsSome(old_get_swap(swap_id)) THEN "SwapNotFound"
    ELSE IF old_swaps[swap_id].claimed THEN "AlreadyClaimed"
    ELSE IF old_swaps[swap_id].refunded THEN "AlreadyRefunded"
    ELSE IF now >= old_swaps[swap_id].timelock THEN "TimelockExpired"
    ELSE IF sha256(preimage) # old_swaps[swap_id].hashlock THEN "InvalidPreimage"
    ELSE IF ~require_auth(old_swaps[swap_id].recipient, caller) THEN "AuthError"
    ELSE "Ok"

old_claimed_swap(swap, preimage) ==
    [swap EXCEPT !.claimed = TRUE, !.preimage = preimage, !.status = "Claimed"]

\* The token transfer is commented out in claim_funds.
claim_funds(caller, swap_id, preimage) ==
    LET err == claim_funds_result(caller, swap_id, preimage) IN
    /\ old_last' = Call("claim_funds", swap_id, err)
    /\ IF err = "Ok"
       THEN /\ old_swaps' = Put(old_swaps, swap_id, old_claimed_swap(old_swaps[swap_id], preimage))
            /\ old_instance' = Put(old_instance, "TotalSwapsCompleted",
                                   old_get_total_swaps_completed + 1)
            /\ old_resolvers' = IF IsSome(old_swaps[swap_id].resolver)
                                THEN increment_resolver_successful_swaps(
                                         old_resolvers, Unwrap(old_swaps[swap_id].resolver))
                                ELSE old_resolvers
       ELSE UNCHANGED <<old_swaps, old_instance, old_resolvers>>
    /\ UNCHANGED <<now, old_user_swaps>>

refund_funds_result(caller, swap_id) ==
    IF ~IsSome(old_get_swap(swap_id)) THEN "SwapNotFound"
    ELSE IF old_swaps[swap_id].claimed THEN "AlreadyClaimed"
    ELSE IF old_swaps[swap_id].refunded THEN "AlreadyRefunded"
    ELSE IF now < old_swaps[swap_id].timelock THEN "TimelockNotExpired"
    ELSE IF ~require_auth(old_swaps[swap_id].sender, caller) THEN "AuthError"
    ELSE "Ok"

old_refunded_swap(swap) ==
    [swap EXCEPT !.refunded = TRUE, !.status = "Refunded"]

\* The token transfer is commented out in refund_funds.
refund_funds(caller, swap_id) ==
    LET err == refund_funds_result(caller, swap_id) IN
    /\ old_last' = Call("refund_funds", swap_id, err)
    /\ IF err = "Ok"
       THEN /\ old_swaps' = Put(old_swaps, swap_id, old_refunded_swap(old_swaps[swap_id]))
            /\ old_instance' = Put(old_instance, "TotalSwapsRefunded",
                                   get_total_swaps_refunded + 1)
       ELSE UNCHANGED <<old_swaps, old_instance>>
    /\ UNCHANGED <<now, old_resolvers, old_user_swaps>>

----------------------------------------------------------------------------
(* Both contracts deployed side by side: every call goes to the current    *)
(* contract and, where the legacy contract has the entry point, to it too, *)
(* with the same caller, arguments and ledger time.                        *)

\* How many swaps the legacy contract stores before creation stops.
MaxOldSwaps == 2

\* alice sends, carol administers and resolves.
PairCallers == {"alice", "carol"}

\* <<admin, fee_recipient, protocol_fee_bps>>
PairInitArgs == {<<"carol", "carol", 30>>, <<"carol", "carol", 0>>}

\* <<sender, recipient, hashlock, timelock - now, amount, resolver>>, all sent by
\* alice: accepted at both ends of the timelock window, with amounts whose fee is
\* and is not truncated to zero; rejected just outside the window; rejected for
\* two reasons at once (the last without the sender's authorization); naming a
\* resolver; and the smallest amount, 1.
PairCreateArgs ==
    { <<"alice", "bob", 1, 3601, 1000000, <<>> >>,
      <<"alice", "bob", 1, 604800, 333, <<>> >>,
      <<"alice", "bob", 1, 3601, 1, <<>> >>,
      <<"alice", "bob", 1, 3600, 1000000, <<>> >>,
      <<"alice", "bob", 1, 604801, 1, <<>> >>,
      <<"alice", "bob", 1, 604801, 0, <<>> >>,
      <<"alice", "bob", 1, 3600, 1000000, <<"carol">> >>,
      <<"alice", "bob", 1, 3601, 10000, <<"carol">> >>,
      <<"bob", "bob", 1, 3601, 0, <<>> >> }

PairCollaterals == {0, 1000000}

PairInitialize(caller, a) ==
    /\ initialize(caller, a[1], a[2], a[3])
    /\ old_initialize(caller, a[1], a[2], a[3])

PairUpdateProtocolFee(caller, fee) ==
    /\ update_protocol_fee(caller, fee)
    /\ old_update_protocol_fee(caller, fee)

PairRegisterResolver(caller, r, c) ==
    /\ register_resolver(caller, r, "token", c)
    /\ old_register_resolver(caller, r, c)

\* The legacy contract takes the sender from the invoker.
PairCreate(caller, a) ==
    /\ Cardinality(DOMAIN old_swaps) < MaxOldSwaps
    /\ create_swap(caller, a[1], a[2], a[3], now + a[4], "token", a[5], "eth", 1, a[6])
    /\ initialize_swap(caller, a[2], "token", a[5], a[3], now + a[4], a[6], "eth")

\* Only the legacy contract can deactivate a resolver.
PairDeactivateResolver(caller, r) ==
    /\ deactivate_resolver(caller, r)
    /\ UNCHANGED new_vars

PairTick ==
    /\ Tick
    /\ old_last' = Call("tick", None, "Ok")
    /\ UNCHANGED <<old_instance, old_swaps, old_resolvers, old_user_swaps>>

\* Creation under the fee rates and at the ledger times of the model.
NextPair ==
    \/ \E caller \in PairCallers, a \in PairInitArgs : PairInitialize(caller, a)
    \/ \E caller \in PairCallers, fee \in FeeUpdates : PairUpdateProtocolFee(caller, fee)
    \/ \E a \in PairCreateArgs : PairCreate("alice", a)
    \/ PairTick

\* Creation while resolvers are registered and deactivated.
NextResolvers ==
    \/ \E caller \in PairCallers, a \in PairInitArgs : PairInitialize(caller, a)
    \/ \E caller \in PairCallers, r \in ResolverAddrs, c \in PairCollaterals :
            PairRegisterResolver(caller, r, c)
    \/ \E caller \in PairCallers, r \in ResolverAddrs : PairDeactivateResolver(caller, r)
    \/ \E a \in PairCreateArgs : PairCreate("alice", a)

\* The swaps the two contracts settle side by side: without and with a resolver.
SettleCreateArgs ==
    { <<"alice", "bob", 1, 3601, 1000000, <<>> >>,
      <<"alice", "bob", 1, 3601, 10000, <<"carol">> >> }

SettleInitArgs == {<<"carol", "carol", 30>>}

\* alice sends and bob receives.
SettleCallers == {"alice", "bob"}

\* The legacy swap created by the same call as the current swap `id`, None if
\* there is none.
OldIdOf(id) ==
    IF id \in DOMAIN swaps /\ \E oid \in DOMAIN old_swaps : old_swaps[oid].created_at = swaps[id].created_at
    THEN CHOOSE oid \in DOMAIN old_swaps : old_swaps[oid].created_at = swaps[id].created_at
    ELSE None

\* A creation sent to both contracts at a ledger time at which neither has
\* created a swap yet.
PairCreateFresh(caller, a) ==
    /\ ~IsSome(get_swap(generate_swap_id(a[1], a[2], "token", a[5], a[3])))
    /\ \A oid \in DOMAIN old_swaps : old_swaps[oid].created_at # now
    /\ PairCreate(caller, a)

\* The same claim sent to the current swap and to its legacy counterpart.
PairClaim(caller, id, preimage) ==
    /\ claim_swap(caller, id, preimage)
    /\ claim_funds(caller, OldIdOf(id), preimage)

\* The same refund sent to the current swap and to its legacy counterpart.
PairRefund(caller, id) ==
    /\ refund_swap(caller, id)
    /\ refund_funds(caller, OldIdOf(id))

\* Claims and refunds while resolvers are registered and deactivated.
NextSettle ==
    \/ \E a \in SettleInitArgs : PairInitialize("carol", a)
    \/ \E r \in ResolverAddrs, c \in PairCollaterals : PairRegisterResolver("carol", r, c)
    \/ \E r \in ResolverAddrs : PairDeactivateResolver("carol", r)
    \/ \E a \in SettleCreateArgs : PairCreateFresh("alice", a)
    \/ \E caller \in SettleCallers, id \in SwapIds, preimage \in Bytes32 :
            PairClaim(caller, id, preimage)
    \/ \E caller \in SettleCallers, id \in SwapIds : PairRefund(caller, id)
    \/ PairTick

\* The ledger times of the liveness specification: one close time more than
\* LedgerTimes, so that the timelock of a swap created at 3601 is reached too.
LiveTimes == {TimeLine[i] : i \in 1..(MaxLedgers + 1)}

LastLiveTime == TimeLine[MaxLedgers + 1]

\* <<sender, recipient, hashlock, timelock - now, amount, resolver>>
LiveCreateArgs == {<<"alice", "bob", 1, 3601, 1000000, <<>> >>}

LiveCallers == {"alice", "bob"}

\* create_swap while the time line still reaches the timelock asked for.
LiveCreate(caller, a) ==
    /\ now + a[4] <= LastLiveTime
    /\ create_swap(caller, a[1], a[2], a[3], now + a[4], "token", a[5], "eth", 1, a[6])
    /\ UNCHANGED old_vars

\* The ledger closes, in the liveness specification.
LiveTick ==
    /\ \E t \in LiveTimes : t > now /\ now' = t
    /\ last' = Call("tick", "none", "Ok")
    /\ UNCHANGED <<instance, swaps, resolvers, user_swaps, claims_ok, refunds_ok, transfers>>
    /\ UNCHANGED old_vars

\* The sender of the swap `swap_id` asks for its refund.
RefundBySender(swap_id) ==
    /\ swap_id \in DOMAIN swaps
    /\ refund_swap(swaps[swap_id].sender, swap_id)
    /\ UNCHANGED old_vars

NextLive ==
    \/ initialize("carol", "carol", "carol", 30) /\ UNCHANGED old_vars
    \/ \E a \in LiveCreateArgs : LiveCreate("alice", a)
    \/ \E caller \in LiveCallers, swap_id \in SwapIds, preimage \in Bytes32 :
            claim_swap(caller, swap_id, preimage) /\ UNCHANGED old_vars
    \/ \E caller \in LiveCallers, swap_id \in SwapIds :
            refund_swap(caller, swap_id) /\ UNCHANGED old_vars
    \/ \E swap_id \in SwapIds : mark_swap_failed("carol", swap_id) /\ UNCHANGED old_vars
    \/ LiveTick

\* The contract while the ledger keeps closing and every sender keeps asking
\* for the refund of their swap.
SpecLive ==
    /\ Init
    /\ [][NextLive]_vars
    /\ WF_vars(LiveTick)
    /\ \A swap_id \in SwapIds : WF_vars(RefundBySender(swap_id))


SpecSettle == Init /\ [][NextSettle]_vars

SpecResolvers == Init /\ [][NextResolvers]_vars

SpecPair == Init /\ [][NextPair]_vars

----------------------------------------------------------------------------
(* Views (lib.rs:354-388) and what the properties below read.              *)

swap_exists(swap_id) == IsSome(get_swap(swap_id))

get_swap_details(swap_id) == get_swap(swap_id)

get_contract_stats ==
    [total_swaps_created |-> get_total_swaps_created,
     total_swaps_completed |-> get_total_swaps_completed,
     protocol_fee_bps |-> get_protocol_fee_bps,
     admin |-> get_admin,
     fee_recipient |-> get_fee_recipient]

get_user_swaps(user) == get_user_swap_ids(user)

StatusOf(swap_id) == swaps[swap_id].status

\* The call create_swap(caller, a) of Next, for a in CreateArgs.
CreateCall(caller, a) ==
    create_swap(caller, a[1], a[2], a[3], now + a[4], "token", a[5], "eth", 1, a[6])

\* create_swap(caller, a) passes the checks of lib.rs:90-113 (authorization,
\* amount, timelock window, resolver).
CreateArgsValid(caller, a) ==
    /\ caller = a[1]
    /\ a[5] > 0
    /\ a[4] > 3600
    /\ a[4] <= 604800
    /\ (IsSome(a[6]) => Unwrap(a[6]) \in DOMAIN resolvers)

\* The transfers the contract invoked for a swap towards an address.
TransfersTo(swap_id, to) ==
    Len(SelectSeq(transfers, LAMBDA t : t.swap_id = swap_id /\ t.to = to))

----------------------------------------------------------------------------
(* C1..C10                                                                 *)

\* C1: over every sequence of calls and ledger times, at most one of claim_swap
\* and refund_swap ever succeeds on a swap, and neither succeeds twice.
C1_ClaimRefundExclusive ==
    \A id \in SwapIds : claims_ok[id] + refunds_ok[id] <= 1

\* A swap was claimed, and a refund_swap on it after that failed.
C1_Witness ==
    /\ last = Call("refund_swap", "swap_even", "AlreadyClaimed")
    /\ claims_ok["swap_even"] = 1
    /\ now >= swaps["swap_even"].timelock

C3_PreimageIffClaimed ==
    \A id \in DOMAIN swaps :
        /\ IsSome(swaps[id].preimage) <=> StatusOf(id) = "Claimed"
        /\ IsSome(swaps[id].preimage) => sha256(Unwrap(swaps[id].preimage)) = swaps[id].hashlock

\* Both swaps are Claimed, with different preimages revealed.
C3_Witness ==
    /\ DOMAIN swaps = SwapIds
    /\ \A id \in SwapIds : StatusOf(id) = "Claimed" /\ IsSome(swaps[id].preimage)
    /\ swaps["swap_even"].preimage # swaps["swap_odd"].preimage

\* C4: a Claimed swap was claimed strictly before its timelock, a Refunded swap
\* was refunded at or after it.
C4_ClaimBeforeRefundAfter ==
    \A id \in DOMAIN swaps :
        /\ StatusOf(id) = "Claimed" =>
              IsSome(swaps[id].claimed_at) /\ Unwrap(swaps[id].claimed_at) < swaps[id].timelock
        /\ StatusOf(id) = "Refunded" =>
              IsSome(swaps[id].refunded_at) /\ Unwrap(swaps[id].refunded_at) >= swaps[id].timelock

\* One swap refunded exactly at its timelock, the other claimed at that same time.
C4_Witness ==
    /\ DOMAIN swaps = SwapIds
    /\ StatusOf("swap_even") = "Refunded"
    /\ swaps["swap_even"].refunded_at = Some(swaps["swap_even"].timelock)
    /\ StatusOf("swap_odd") = "Claimed"
    /\ swaps["swap_odd"].claimed_at = swaps["swap_even"].refunded_at

\* C5: a claim_swap that changes a swap is authorized by its recipient and a
\* refund_swap that changes it by its sender; a call that passes the other
\* checks without that authorization fails and leaves the swaps as they were.
C5_OnlyRecipientClaimsOnlySenderRefunds ==
    [][\A id \in DOMAIN swaps : last'.id = id => \A caller \in Addresses :
          /\ \A p \in Bytes32 :
                claim_swap(caller, id, p) /\ caller # swaps[id].recipient =>
                    /\ swaps' = swaps
                    /\ last'.err # "Ok"
                    /\ (/\ StatusOf(id) \notin {"Claimed", "Refunded"}
                        /\ now < swaps[id].timelock
                        /\ sha256(p) = swaps[id].hashlock) => last'.err = "AuthError"
          /\ refund_swap(caller, id) /\ caller # swaps[id].sender =>
                    /\ swaps' = swaps
                    /\ last'.err # "Ok"
                    /\ (/\ StatusOf(id) \notin {"Claimed", "Refunded"}
                        /\ now >= swaps[id].timelock) => last'.err = "AuthError"]_vars

\* A claim with the right preimage, in time, failed for want of the recipient's
\* authorization, and the swap is still Pending.
C5_Witness ==
    /\ last = Call("claim_swap", "swap_even", "AuthError")
    /\ StatusOf("swap_even") = "Pending"
    /\ now < swaps["swap_even"].timelock

\* C6: a create_swap whose derived identifier is already stored fails (with
\* SwapAlreadyExists when its arguments are otherwise accepted), the stored
\* record stays as it was, and no call ever removes or replaces a record by a
\* fresh one.
C6_CreateNeverOverwrites ==
    [][/\ \A id \in DOMAIN swaps :
             /\ id \in DOMAIN swaps'
             /\ swaps'[id].created_at = swaps[id].created_at
       /\ last'.op = "create_swap" => \A caller \in Addresses, a \in CreateArgs :
             (/\ CreateCall(caller, a)
              /\ swap_exists(generate_swap_id(a[1], a[2], "token", a[5], a[3]))) =>
                 /\ last'.err # "Ok"
                 /\ swaps' = swaps
                 /\ CreateArgsValid(caller, a) => last'.err = "SwapAlreadyExists"]_vars

\* A creation was refused with SwapAlreadyExists while the stored swap of that
\* identifier was already Claimed.
C6_Witness ==
    /\ last = Call("create_swap", "swap_even", "SwapAlreadyExists")
    /\ StatusOf("swap_even") = "Claimed"

\* C7: a create_swap with accepted arguments, made at the ledger timestamp at
\* which a swap with the same parameters was created, succeeds and gets an
\* identifier no stored swap has.
C7_SameInstantDistinctIds ==
    [][\A caller \in Addresses, a \in CreateArgs :
          (/\ CreateCall(caller, a)
           /\ CreateArgsValid(caller, a)
           /\ \E id \in DOMAIN swaps :
                 /\ swaps[id].created_at = now
                 /\ swaps[id].sender = a[1] /\ swaps[id].recipient = a[2]
                 /\ swaps[id].hashlock = a[3] /\ swaps[id].timelock = now + a[4]
                 /\ swaps[id].amount = a[5] /\ swaps[id].token = "token") =>
              /\ last'.err = "Ok"
              /\ last'.id \notin DOMAIN swaps]_vars

\* The stored configuration and counters of initialize.
Config == <<instance["Admin"], instance["FeeRecipient"], instance["ProtocolFeeBps"]>>

\* C8: an initialize on an initialized contract fails and leaves the admin, the
\* fee recipient, the fee rate and the counters unchanged.
C8_InitializeOnce ==
    [][\A caller \in Addresses, a \in InitArgs :
          initialize(caller, a[1], a[2], a[3]) /\ has_admin =>
              /\ last'.err # "Ok"
              /\ instance' = instance]_vars

\* C9: once initialized, the admin, the fee recipient and the fee rate change
\* only in a call authorized by the admin stored before the call.
C9_ConfigOnlyByAdmin ==
    [][has_admin /\ Config' # Config =>
          \A caller \in Addresses :
              (\/ \E a \in InitArgs : initialize(caller, a[1], a[2], a[3])
               \/ \E fee \in FeeUpdates : update_protocol_fee(caller, fee)) =>
                  caller = get_admin]_vars

\* C10: every successful claim_swap has invoked one transfer to the recipient
\* and every successful refund_swap one transfer to the sender, and no others.
C10_OneTransferPerSettlement ==
    \A id \in DOMAIN swaps :
        /\ TransfersTo(id, swaps[id].recipient) + TransfersTo(id, swaps[id].sender)
              = claims_ok[id] + refunds_ok[id]
        /\ StatusOf(id) = "Claimed" => TransfersTo(id, swaps[id].recipient) = 1
        /\ StatusOf(id) = "Refunded" => TransfersTo(id, swaps[id].sender) = 1

\* The call PairCreate(alice, a) is the creation of a swap in both contracts.
\* C11 as stated: every creation stores the requested amount less the fee
\* floor(amount * fee_bps / 10000) at the configured rate.
C11_FeeDeductedAtCreation ==
    [][\A a \in PairCreateArgs :
          PairCreate("alice", a) =>
              /\ last'.err = "Ok" =>
                    LET fee == a[5] - swaps'[last'.id].amount
                        product == a[5] * get_protocol_fee_bps
                    IN fee * 10000 <= product /\ product < (fee + 1) * 10000
              /\ old_last'.err = "Ok" =>
                    LET fee == a[5] - old_swaps'[old_last'.id].amount
                        product == a[5] * old_get_protocol_fee_bps
                    IN fee * 10000 <= product /\ product < (fee + 1) * 10000]_vars

\* C11 amended: the legacy initialize_swap stores fee = floor(amount * fee_bps /
\* 10000) as protocol_fee and amount - fee as amount; the current create_swap
\* deducts nothing and stores the amount as passed.
C11_FeeDeductedInLegacyOnly ==
    [][\A a \in PairCreateArgs :
          PairCreate("alice", a) =>
              /\ last'.err = "Ok" => swaps'[last'.id].amount = a[5]
              /\ old_last'.err = "Ok" =>
                    LET sw == old_swaps'[old_last'.id]
                        product == a[5] * old_get_protocol_fee_bps
                    IN /\ sw.protocol_fee * 10000 <= product
                       /\ product < (sw.protocol_fee + 1) * 10000
                       /\ sw.amount + sw.protocol_fee = a[5]]_vars

\* At 30 bps a creation of 1000000 was stored as 997000 with fee 3000 by the
\* legacy contract and as 1000000 by the current one, and the legacy contract
\* also holds a swap of 333 whose fee was truncated to zero.
C11_Witness ==
    /\ old_last.op = "initialize_swap" /\ old_last.err = "Ok"
    /\ old_get_protocol_fee_bps = 30
    /\ old_swaps[old_last.id].amount = 997000
    /\ old_swaps[old_last.id].protocol_fee = 3000
    /\ last.err = "Ok" /\ swaps[last.id].amount = 1000000
    /\ \E id \in DOMAIN old_swaps : old_swaps[id].amount = 333 /\ old_swaps[id].protocol_fee = 0

\* C12: after a successful create_swap, get_swap_details of the returned id gives
\* a record with the sender, recipient, hashlock, timelock and amount passed
\* (whatever the fee rate), status Pending, and no claimed_at, refunded_at or
\* preimage.
C12_CreatedAsPassed ==
    [][last'.op = "create_swap" /\ last'.err = "Ok" =>
       \A caller \in Addresses, a \in CreateArgs, id \in SwapIds :
          CreateCall(caller, a) /\ last'.id = id =>
              /\ IsSome(get_swap_details(id)')
              /\ LET d == Unwrap(get_swap_details(id)') IN
                    /\ d.sender = a[1]
                    /\ d.recipient = a[2]
                    /\ d.hashlock = a[3]
                    /\ d.timelock = now + a[4]
                    /\ d.amount = a[5]
                    /\ d.status = "Pending"
                    /\ d.claimed_at = None /\ d.refunded_at = None /\ d.preimage = None]_vars

\* A swap of 1000000 was just created with the fee rate set to 500 bps, and is
\* stored with that amount.
C12_Witness ==
    /\ last = Call("create_swap", "swap_odd", "Ok")
    /\ has_admin /\ get_protocol_fee_bps = 500
    /\ IsSome(get_swap_details("swap_odd"))
    /\ Unwrap(get_swap_details("swap_odd")).amount = 1000000
    /\ Unwrap(get_swap_details("swap_odd")).status = "Pending"

\* The timelock window of the claims: 3600 < timelock - now <= 604800.
InWindow(duration) == 3600 < duration /\ duration <= 604800

\* C13: a creation at ledger time now succeeds only if 3600 < timelock - now <=
\* 604800; outside the window it fails, with InvalidTimelock once the sender's
\* authorization and the amount are accepted; now + 3600 is rejected and
\* now + 604800 is not; every stored swap, of either contract, has
\* 3600 < timelock - created_at <= 604800.
C13_TimelockWindow ==
    [][/\ \A a \in PairCreateArgs :
             PairCreate("alice", a) =>
                 /\ last'.err = "Ok" => InWindow(a[4])
                 /\ old_last'.err = "Ok" => InWindow(a[4])
                 /\ ~InWindow(a[4]) /\ a[1] = "alice" /\ a[5] > 0 => last'.err = "InvalidTimelock"
                 /\ ~InWindow(a[4]) /\ a[5] > 0 => old_last'.err = "InvalidTimelock"
                 /\ a[4] = 604800 => last'.err # "InvalidTimelock" /\ old_last'.err # "InvalidTimelock"
                 /\ (/\ a[4] = 604800 /\ a[1] = "alice" /\ a[5] > 0 /\ a[6] = None
                     /\ ~swap_exists(generate_swap_id(a[1], a[2], "token", a[5], a[3]))) =>
                        last'.err = "Ok"
                 /\ (/\ a[4] = 604800 /\ a[5] > 0 /\ a[6] = None
                     /\ ~has_swap(old_generate_swap_id(a[2], "token", a[5], a[3], now + a[4], old_get_swap_counter + 1))) =>
                        old_last'.err = "Ok"
       /\ \A id \in DOMAIN swaps' : InWindow(swaps'[id].timelock - swaps'[id].created_at)
       /\ \A id \in DOMAIN old_swaps' :
             InWindow(old_swaps'[id].timelock - old_swaps'[id].created_at)]_vars

\* At ledger time 3601 a swap with timelock now + 604800 was created in both
\* contracts, after a creation with now + 3600 had been tried.
C13_Witness ==
    /\ now = 3601
    /\ last = Call("create_swap", "swap_odd", "Ok")
    /\ swaps["swap_odd"].timelock = now + 604800
    /\ old_last.op = "initialize_swap" /\ old_last.err = "Ok"
    /\ old_swaps[old_last.id].timelock = now + 604800

\* C14: a claim_swap on a Pending swap before the timelock, with the preimage of
\* the hashlock and the recipient's authorization, succeeds, sets status Claimed,
\* claimed_at = now and preimage = the value supplied, and adds one to
\* total_swaps_completed; a claim_swap on a Claimed swap fails with
\* AlreadyClaimed and changes nothing.
C14_ClaimOnceThenAlreadyClaimed ==
    [][last'.op = "claim_swap" =>
       \A id \in DOMAIN swaps : last'.id = id =>
          \A caller \in Addresses, p \in Bytes32 :
             claim_swap(caller, id, p) =>
                 /\ (/\ StatusOf(id) = "Pending"
                     /\ now < swaps[id].timelock
                     /\ sha256(p) = swaps[id].hashlock
                     /\ caller = swaps[id].recipient) =>
                        /\ last'.err = "Ok"
                        /\ swaps'[id].status = "Claimed"
                        /\ swaps'[id].claimed_at = Some(now)
                        /\ swaps'[id].preimage = Some(p)
                        /\ get_total_swaps_completed' = get_total_swaps_completed + 1
                 /\ StatusOf(id) = "Claimed" =>
                        /\ last'.err = "AlreadyClaimed"
                        /\ UNCHANGED <<instance, swaps, resolvers, user_swaps>>]_vars

\* A swap claimed at time 0 was claimed again at 3601: the second claim failed
\* with AlreadyClaimed and the completion counter still reads one.
C14_Witness ==
    /\ last = Call("claim_swap", "swap_even", "AlreadyClaimed")
    /\ now = 3601
    /\ swaps["swap_even"].claimed_at = Some(0)
    /\ swaps["swap_even"].preimage = Some(0)
    /\ get_total_swaps_completed = 1

\* C15: a claim_swap on a swap that is neither Claimed nor Refunded, at a ledger
\* time at or after its timelock, fails with TimelockExpired whatever the preimage
\* and the caller, and leaves the swaps and the counters unchanged.
C15_ClaimAfterTimelockExpired ==
    [][last'.op = "claim_swap" =>
       \A id \in DOMAIN swaps : last'.id = id =>
          \A caller \in Addresses, p \in Bytes32 :
             (/\ claim_swap(caller, id, p)
              /\ StatusOf(id) \notin {"Claimed", "Refunded"}
              /\ now >= swaps[id].timelock) =>
                 /\ last'.err = "TimelockExpired"
                 /\ UNCHANGED <<instance, swaps, resolvers, user_swaps>>]_vars

\* A claim made exactly at the timelock of a Pending swap failed with
\* TimelockExpired.
C15_Witness ==
    /\ last = Call("claim_swap", "swap_even", "TimelockExpired")
    /\ now = swaps["swap_even"].timelock
    /\ StatusOf("swap_even") = "Pending"

\* C16 as stated: a refund_swap on a swap that was not claimed fails with
\* TimelockNotExpired before the timelock and changes nothing; at or after the
\* timelock, with the sender's authorization, it succeeds and sets status
\* Refunded and refunded_at = now.
C16_RefundOfUnclaimed ==
    [][last'.op = "refund_swap" =>
       \A id \in DOMAIN swaps : last'.id = id =>
          \A caller \in Addresses :
             refund_swap(caller, id) /\ StatusOf(id) # "Claimed" =>
                 /\ now < swaps[id].timelock =>
                        last'.err = "TimelockNotExpired" /\ swaps' = swaps
                 /\ now >= swaps[id].timelock /\ caller = swaps[id].sender =>
                        /\ last'.err = "Ok"
                        /\ swaps'[id].status = "Refunded"
                        /\ swaps'[id].refunded_at = Some(now)]_vars

\* C16 amended: the same of a swap that was neither claimed nor refunded.
C16_RefundOfUnsettled ==
    [][last'.op = "refund_swap" =>
       \A id \in DOMAIN swaps : last'.id = id =>
          \A caller \in Addresses :
             refund_swap(caller, id) /\ StatusOf(id) \notin {"Claimed", "Refunded"} =>
                 /\ now < swaps[id].timelock =>
                        last'.err = "TimelockNotExpired" /\ swaps' = swaps
                 /\ now >= swaps[id].timelock /\ caller = swaps[id].sender =>
                        /\ last'.err = "Ok"
                        /\ swaps'[id].status = "Refunded"
                        /\ swaps'[id].refunded_at = Some(now)]_vars

\* One swap was refused a refund before its timelock while the other had been
\* refunded exactly at its own.
C16_Witness ==
    /\ last = Call("refund_swap", "swap_odd", "TimelockNotExpired")
    /\ StatusOf("swap_odd") = "Pending"
    /\ "swap_even" \in DOMAIN swaps
    /\ StatusOf("swap_even") = "Refunded"
    /\ swaps["swap_even"].refunded_at = Some(swaps["swap_even"].timelock)

C18_CreateErrorOrder ==
    [][last'.op = "create_swap" =>
       \A a \in PairCreateArgs :
          PairCreate("alice", a) =>
             LET authed   == a[1] = "alice"
                 positive == authed /\ a[5] > 0
                 windowed == positive /\ InWindow(a[4])
                 resolved == windowed /\ (IsSome(a[6]) => Unwrap(a[6]) \in DOMAIN resolvers)
             IN  /\ ~authed => last'.err = "AuthError"
                 /\ authed /\ ~positive => last'.err = "InvalidAmount"
                 /\ positive /\ ~windowed => last'.err = "InvalidTimelock"
                 /\ windowed /\ ~resolved => last'.err = "ResolverNotActive"
                 /\ resolved => last'.err \in {"Ok", "SwapAlreadyExists"}]_vars

\* A creation failed with InvalidTimelock while no resolver was registered, and
\* the legacy contract refused the same call for the same reason.
C18_Witness ==
    /\ last.op = "create_swap" /\ last.err = "InvalidTimelock"
    /\ old_last.op = "initialize_swap" /\ old_last.err = "InvalidTimelock"
    /\ resolvers = Empty
    /\ has_admin

\* C19: in either contract a creation naming a resolver succeeds only if that
\* resolver is registered with is_active true at that moment; once the earlier
\* checks pass, naming an unregistered or a deactivated resolver fails with
\* ResolverNotActive and stores no swap. (The current contract looks only for the
\* record, and none of its records ever has is_active false.)
C19_ResolverMustBeActive ==
    [][/\ \A a \in PairCreateArgs :
             PairCreate("alice", a) /\ IsSome(a[6]) =>
                LET r == Unwrap(a[6])
                    active     == r \in DOMAIN resolvers /\ resolvers[r].is_active
                    old_active == r \in DOMAIN old_resolvers /\ old_resolvers[r].is_active
                IN  /\ last'.err = "Ok" => active
                    /\ old_last'.err = "Ok" => old_active
                    /\ a[1] = "alice" /\ a[5] > 0 /\ InWindow(a[4]) /\ ~active =>
                           last'.err = "ResolverNotActive" /\ swaps' = swaps
                    /\ a[5] > 0 /\ InWindow(a[4]) /\ ~old_active =>
                           old_last'.err = "ResolverNotActive" /\ old_swaps' = old_swaps
       /\ \A r \in DOMAIN resolvers' : resolvers'[r].is_active]_vars

\* The legacy contract refused a creation naming carol, registered but
\* deactivated, after having accepted one while she was active.
C19_Witness ==
    /\ old_last = Call("initialize_swap", None, "ResolverNotActive")
    /\ "carol" \in DOMAIN old_resolvers
    /\ ~old_resolvers["carol"].is_active
    /\ old_resolvers["carol"].total_swaps = 1

\* C20: a register_resolver authorized by the admin with min_collateral > 0
\* stores for that resolver a record with the collateral token and min_collateral
\* given, is_active true and total_resolved zero; with min_collateral <= 0 it
\* fails with InsufficientCollateral and the resolver records stay as they were.
C20_RegisterResolver ==
    [][last'.op = "register_resolver" =>
       \A caller \in Addresses, r \in ResolverAddrs, c \in Collaterals :
          (/\ register_resolver(caller, r, "token", c)
           /\ has_admin
           /\ caller = get_admin) =>
              /\ c > 0 =>
                    /\ last'.err = "Ok"
                    /\ r \in DOMAIN resolvers'
                    /\ resolvers'[r].resolver = r
                    /\ resolvers'[r].collateral_token = "token"
                    /\ resolvers'[r].min_collateral = c
                    /\ resolvers'[r].is_active
                    /\ resolvers'[r].total_resolved = 0
              /\ c <= 0 =>
                    /\ last'.err = "InsufficientCollateral"
                    /\ resolvers' = resolvers]_vars

\* A registration was refused with InsufficientCollateral while carol's record
\* from an earlier registration stood as stored.
C20_Witness ==
    /\ last = Call("register_resolver", "none", "InsufficientCollateral")
    /\ "carol" \in DOMAIN resolvers
    /\ resolvers["carol"].min_collateral = 1
    /\ resolvers["carol"].is_active
    /\ resolvers["carol"].total_resolved = 0

\* C21: the protocol fee rate is at most 500 basis points in every reachable
\* state; an initialize or update_protocol_fee with a rate above 500 fails, with
\* InvalidFee once its authorization is accepted, and leaves the stored rate
\* unchanged; update_protocol_fee(500) by the admin succeeds and sets the rate to 500.
C21_FeeAtMost500 ==
    [][/\ get_protocol_fee_bps <= 500
       /\ get_protocol_fee_bps' <= 500
       /\ last'.op = "initialize" =>
             \A caller \in Addresses, a \in InitArgs :
                initialize(caller, a[1], a[2], a[3]) /\ a[3] > 500 =>
                    /\ last'.err # "Ok"
                    /\ caller = a[1] => last'.err = "InvalidFee"
                    /\ instance' = instance
       /\ last'.op = "update_protocol_fee" =>
             \A caller \in Addresses, fee \in FeeUpdates :
                update_protocol_fee(caller, fee) =>
                    /\ fee > 500 =>
                          /\ last'.err # "Ok"
                          /\ has_admin /\ caller = get_admin => last'.err = "InvalidFee"
                          /\ instance' = instance
                    /\ fee = 500 /\ has_admin /\ caller = get_admin =>
                          /\ last'.err = "Ok"
                          /\ get_protocol_fee_bps' = 500]_vars

\* With the rate at 500 after an update, an update to 501 was refused with InvalidFee.
C21_Witness ==
    /\ last = Call("update_protocol_fee", "none", "InvalidFee")
    /\ get_protocol_fee_bps = 500

\* C22: a mark_swap_failed authorized by the admin on a stored swap that is
\* neither Claimed nor Refunded sets its status to Failed and changes no other
\* field of it, no other swap and no counter; on a Claimed swap it fails with
\* AlreadyClaimed, on a Refunded one with AlreadyRefunded, on an unknown id with
\* SwapNotFound, and the state stays as it was.
C22_MarkFailed ==
    [][last'.op = "mark_swap_failed" =>
       \A id \in SwapIds : last'.id = id =>
          \A caller \in Addresses :
             mark_swap_failed(caller, id) /\ has_admin /\ caller = get_admin =>
                 /\ id \notin DOMAIN swaps =>
                       /\ last'.err = "SwapNotFound"
                       /\ UNCHANGED <<instance, swaps, resolvers, user_swaps>>
                 /\ id \in DOMAIN swaps =>
                       /\ StatusOf(id) = "Claimed" =>
                             /\ last'.err = "AlreadyClaimed"
                             /\ UNCHANGED <<instance, swaps, resolvers, user_swaps>>
                       /\ StatusOf(id) = "Refunded" =>
                             /\ last'.err = "AlreadyRefunded"
                             /\ UNCHANGED <<instance, swaps, resolvers, user_swaps>>
                       /\ StatusOf(id) \notin {"Claimed", "Refunded"} =>
                             /\ last'.err = "Ok"
                             /\ swaps' = [swaps EXCEPT ![id].status = "Failed"]
                             /\ UNCHANGED <<instance, resolvers, user_swaps>>]_vars

\* One swap was marked Failed after the other had been claimed, and the
\* completion counter stands at the one claim.
C22_Witness ==
    /\ last = Call("mark_swap_failed", "swap_odd", "Ok")
    /\ StatusOf("swap_odd") = "Failed"
    /\ "swap_even" \in DOMAIN swaps
    /\ StatusOf("swap_even") = "Claimed"
    /\ get_total_swaps_completed = 1

\* C23: in every reachable state total_swaps_created of get_contract_stats is the
\* number of swap records stored and total_swaps_completed is the number of
\* stored swaps whose status is Claimed.
C23_StatsDerivable ==
    /\ get_total_swaps_created = Cardinality(DOMAIN swaps)
    /\ get_total_swaps_completed =
          Cardinality({id \in DOMAIN swaps : StatusOf(id) = "Claimed"})

\* C24: for every stored swap claimed_at is present exactly when the status is
\* Claimed and refunded_at exactly when it is Refunded; each is written once,
\* by the claim_swap or refund_swap that makes the transition, with the ledger
\* time of that call, and never changes afterwards.
C24_TimestampsFollowStatus ==
    [][\A id \in DOMAIN swaps' :
          /\ IsSome(swaps'[id].claimed_at) <=> swaps'[id].status = "Claimed"
          /\ IsSome(swaps'[id].refunded_at) <=> swaps'[id].status = "Refunded"
          /\ id \in DOMAIN swaps =>
                /\ IsSome(swaps[id].claimed_at) => swaps'[id].claimed_at = swaps[id].claimed_at
                /\ IsSome(swaps[id].refunded_at) => swaps'[id].refunded_at = swaps[id].refunded_at
                /\ ~IsSome(swaps[id].claimed_at) /\ IsSome(swaps'[id].claimed_at) =>
                      /\ last' = Call("claim_swap", id, "Ok")
                      /\ swaps'[id].claimed_at = Some(now)
                /\ ~IsSome(swaps[id].refunded_at) /\ IsSome(swaps'[id].refunded_at) =>
                      /\ last' = Call("refund_swap", id, "Ok")
                      /\ swaps'[id].refunded_at = Some(now)]_vars

\* One swap refunded at its timelock and another claimed at the same ledger
\* time, each with its own timestamp only.
C24_Witness ==
    /\ DOMAIN swaps = {"swap_even", "swap_odd"}
    /\ StatusOf("swap_even") = "Refunded"
    /\ swaps["swap_even"].refunded_at = Some(3601)
    /\ swaps["swap_even"].claimed_at = None
    /\ StatusOf("swap_odd") = "Claimed"
    /\ swaps["swap_odd"].claimed_at = Some(3601)
    /\ swaps["swap_odd"].refunded_at = None

\* C25: the id, sender, recipient, token, amount, hashlock, timelock and
\* created_at of a stored swap never change, and the swap is never removed,
\* whatever operation is called.
C25_CreationFieldsImmutable ==
    [][\A id \in DOMAIN swaps :
          /\ id \in DOMAIN swaps'
          /\ swaps'[id].id = swaps[id].id
          /\ swaps'[id].sender = swaps[id].sender
          /\ swaps'[id].recipient = swaps[id].recipient
          /\ swaps'[id].token = swaps[id].token
          /\ swaps'[id].amount = swaps[id].amount
          /\ swaps'[id].hashlock = swaps[id].hashlock
          /\ swaps'[id].timelock = swaps[id].timelock
          /\ swaps'[id].created_at = swaps[id].created_at]_vars

\* A claimed swap still has the fields it was created with, after a creation
\* that would have had the same identifier was refused.
C25_Witness ==
    /\ last = Call("create_swap", "swap_even", "SwapAlreadyExists")
    /\ StatusOf("swap_even") = "Claimed"
    /\ swaps["swap_even"].sender = "alice"
    /\ swaps["swap_even"].recipient = "bob"
    /\ swaps["swap_even"].amount = 1000000
    /\ swaps["swap_even"].hashlock = 1
    /\ swaps["swap_even"].timelock = 3601
    /\ swaps["swap_even"].created_at = 0

\* C26: every stored swap, of either contract, has amount > 0: a creation with
\* amount <= 0 fails, with InvalidAmount once the sender's authorization is
\* accepted, and stores nothing; and the net amount the legacy contract stores
\* after deducting the fee, at any rate up to 500 basis points, is positive for
\* every requested amount from 1 up.
C26_AmountPositive ==
    [][/\ \A id \in DOMAIN swaps' : swaps'[id].amount > 0
       /\ \A id \in DOMAIN old_swaps' : old_swaps'[id].amount > 0
       /\ old_get_protocol_fee_bps' <= 500
       /\ \A a \in PairCreateArgs :
             PairCreate("alice", a) /\ a[5] <= 0 =>
                 /\ last'.err # "Ok"
                 /\ a[1] = "alice" => last'.err = "InvalidAmount"
                 /\ old_last'.err = "InvalidAmount"
                 /\ swaps' = swaps /\ old_swaps' = old_swaps
       /\ \A amount \in 1..40, bps \in {0, 30, 499, 500} :
             net_amount_of(amount, bps) > 0]_vars

\* The legacy contract stored a swap of the smallest amount, 1, undiminished,
\* while the fee rate was 500 basis points.
C26_Witness ==
    /\ old_last.op = "initialize_swap" /\ old_last.err = "Ok"
    /\ old_swaps[old_last.id].amount = 1
    /\ old_get_protocol_fee_bps = 500
    /\ last = Call("create_swap", "swap_even", "Ok")
    /\ swaps["swap_even"].amount = 1

\* C27: an operation that fails leaves the whole contract state as it was: the
\* swap records, the swap counter and the statistics, the configuration, the
\* resolver records and the user swap indexes; a create_swap refused with
\* SwapAlreadyExists does not advance the swap counter.
C27_FailureChangesNothing ==
    [][last'.err # "Ok" =>
          /\ UNCHANGED <<instance, swaps, resolvers, user_swaps>>
          /\ get_swap_counter' = get_swap_counter
          /\ get_total_swaps_created' = get_total_swaps_created
          /\ get_total_swaps_completed' = get_total_swaps_completed
          /\ get_protocol_fee_bps' = get_protocol_fee_bps]_vars

\* A create_swap was refused with SwapAlreadyExists, the counter still at the
\* one swap created.
C27_Witness ==
    /\ last = Call("create_swap", "swap_even", "SwapAlreadyExists")
    /\ get_swap_counter = 1
    /\ get_total_swaps_created = 1
    /\ get_user_swaps("alice") = <<"swap_even">>

\* C28: get_user_swaps of an identity lists, without repetition and in creation
\* order, exactly the stored swaps whose sender it is; a step either leaves the
\* list as it was or is a successful create_swap with that sender, which appends
\* the new identifier at the end.
C28_UserSwapsAppendOnly ==
    [][\A user \in Addresses :
          /\ {get_user_swaps(user)'[i] : i \in 1..Len(get_user_swaps(user)')} =
                {id \in DOMAIN swaps' : swaps'[id].sender = user}
          /\ \A i, j \in 1..Len(get_user_swaps(user)') :
                i < j => /\ get_user_swaps(user)'[i] # get_user_swaps(user)'[j]
                         /\ swaps'[get_user_swaps(user)'[i]].created_at <=
                               swaps'[get_user_swaps(user)'[j]].created_at
          /\ \/ get_user_swaps(user)' = get_user_swaps(user)
             \/ /\ last'.op = "create_swap" /\ last'.err = "Ok"
                /\ swaps'[last'.id].sender = user
                /\ last'.id \notin DOMAIN swaps
                /\ get_user_swaps(user)' = Append(get_user_swaps(user), last'.id)]_vars

\* alice created two swaps, one after the other, and bob none.
C28_Witness ==
    /\ get_user_swaps("alice") = <<"swap_even", "swap_odd">>
    /\ get_user_swaps("bob") = <<>>
    /\ swaps["swap_even"].created_at < swaps["swap_odd"].created_at

\* C29: a deactivate_resolver of the legacy contract authorized by the admin on
\* a registered resolver sets is_active to false and leaves every other field of
\* the record, and every other record, as it was; on an unregistered resolver it
\* fails with ResolverNotFound and changes nothing; no operation removes a record.
C29_DeactivateResolver ==
    [][/\ \A r \in DOMAIN old_resolvers : r \in DOMAIN old_resolvers'
       /\ old_last'.op = "deactivate_resolver" =>
             \A caller \in PairCallers, r \in ResolverAddrs :
                (/\ PairDeactivateResolver(caller, r)
                 /\ old_has_admin
                 /\ caller = old_get_admin) =>
                    /\ r \in DOMAIN old_resolvers =>
                          /\ old_last'.err = "Ok"
                          /\ old_resolvers' = [old_resolvers EXCEPT ![r].is_active = FALSE]
                    /\ r \notin DOMAIN old_resolvers =>
                          /\ old_last'.err = "ResolverNotFound"
                          /\ old_resolvers' = old_resolvers
                    /\ UNCHANGED <<old_instance, old_swaps, old_user_swaps>>]_vars

\* carol was deactivated after a swap had named her: her record stands, with
\* its collateral and its one swap counted.
C29_Witness ==
    /\ old_last = Call("deactivate_resolver", None, "Ok")
    /\ "carol" \in DOMAIN old_resolvers
    /\ ~old_resolvers["carol"].is_active
    /\ old_resolvers["carol"].total_swaps = 1
    /\ old_resolvers["carol"].collateral = 1000000

\* C30: the outcome of a claim_swap with a preimage whose sha256 is not the
\* hashlock does not depend on the caller: from the same state the call made by
\* any other identity ends in the same state with the same error, that error is
\* InvalidPreimage when the swap is neither Claimed nor Refunded and its
\* timelock is ahead, and the contract state is unchanged.
C30_WrongPreimageCallerIndependent ==
    [][last'.op = "claim_swap" =>
       \A id \in DOMAIN swaps : last'.id = id =>
          \A c1 \in Addresses, p \in Bytes32 :
             claim_swap(c1, id, p) /\ sha256(p) # swaps[id].hashlock =>
                 /\ \A c2 \in Addresses : claim_swap(c2, id, p)
                 /\ last'.err # "Ok"
                 /\ UNCHANGED <<instance, swaps, resolvers, user_swaps>>
                 /\ (StatusOf(id) \notin {"Claimed", "Refunded"} /\ now < swaps[id].timelock) =>
                        last'.err = "InvalidPreimage"]_vars

\* A claim on a Pending swap ahead of its timelock failed with InvalidPreimage.
C30_Witness ==
    /\ last = Call("claim_swap", "swap_odd", "InvalidPreimage")
    /\ StatusOf("swap_odd") = "Pending"
    /\ now < swaps["swap_odd"].timelock

\* C37: while the contract has never been initialized, a create_swap, a
\* register_resolver, an update_protocol_fee and a mark_swap_failed all fail and
\* change nothing, so that no swap is stored before the first initialize.
C37_NothingBeforeInitialize ==
    [][~has_admin =>
          /\ swaps' = Empty
          /\ last'.op \in {"create_swap", "register_resolver", "update_protocol_fee",
                           "mark_swap_failed"} =>
                /\ last'.err # "Ok"
                /\ UNCHANGED <<instance, swaps, resolvers, user_swaps>>]_vars

\* C38: every identifier in the index of an identity names a stored swap whose
\* sender is that identity, no index holds an identifier twice, and every stored
\* swap stands exactly once in the indexes, in that of its sender.
C38_IndexConsistent ==
    /\ \A user \in Addresses :
          \A i \in 1..Len(get_user_swaps(user)) :
             /\ get_user_swaps(user)[i] \in DOMAIN swaps
             /\ swaps[get_user_swaps(user)[i]].sender = user
             /\ \A j \in 1..Len(get_user_swaps(user)) :
                   i # j => get_user_swaps(user)[i] # get_user_swaps(user)[j]
    /\ \A id \in DOMAIN swaps :
          LET places == {<<user, i>> \in Addresses \X (1..Cardinality(DOMAIN swaps) + 1) :
                            i <= Len(get_user_swaps(user)) /\ get_user_swaps(user)[i] = id}
          IN  /\ Cardinality(places) = 1
              /\ \A pl \in places : pl[1] = swaps[id].sender

\* alice and bob each sent one swap, and each index holds its sender's swap.
C38_Witness ==
    /\ get_user_swaps("alice") = <<"swap_even">>
    /\ get_user_swaps("bob") = <<"swap_odd">>
    /\ swaps["swap_even"].sender = "alice"
    /\ swaps["swap_odd"].sender = "bob"

\* C31: when a swap names a resolver, a successful creation adds exactly one to
\* that resolver's activity counter (total_swaps in the legacy record) and a
\* successful claim of the swap adds exactly one to its success counter
\* (successful_swaps in the legacy record, total_resolved in the current one);
\* a creation or claim of a swap naming no resolver, a failed call and a refund
\* change no resolver record.
C31_ResolverCounters ==
    [][/\ old_last'.op = "initialize_swap" =>
             \A a \in SettleCreateArgs :
                PairCreateFresh("alice", a) =>
                    IF IsSome(a[6]) /\ old_last'.err = "Ok"
                    THEN old_resolvers' = [old_resolvers EXCEPT ![Unwrap(a[6])].total_swaps = @ + 1]
                    ELSE old_resolvers' = old_resolvers
       /\ last'.op = "create_swap" => resolvers' = resolvers
       /\ old_last'.op = "refund_funds" => old_resolvers' = old_resolvers
       /\ last'.op = "refund_swap" => resolvers' = resolvers
       /\ old_last'.op = "claim_funds" =>
             IF old_last'.err = "Ok" /\ IsSome(old_swaps[old_last'.id].resolver)
             THEN old_resolvers' =
                     [old_resolvers EXCEPT ![Unwrap(old_swaps[old_last'.id].resolver)].successful_swaps = @ + 1]
             ELSE old_resolvers' = old_resolvers
       /\ last'.op = "claim_swap" /\ old_last'.op = "claim_funds" =>
             IF last'.err = "Ok" /\ IsSome(swaps[last'.id].resolver)
             THEN resolvers' =
                     [resolvers EXCEPT ![Unwrap(swaps[last'.id].resolver)].total_resolved = @ + 1]
             ELSE resolvers' = resolvers]_vars

\* C36: in the legacy contract every resolver record has successful_swaps <=
\* total_swaps in every reachable state.
C36_SuccessfulAtMostTotal ==
    \A r \in DOMAIN old_resolvers :
        old_resolvers[r].successful_swaps <= old_resolvers[r].total_swaps

\* C33: a successful register_resolver stores a fresh record for the resolver
\* whatever record it had: is_active true even after a deactivation, the
\* counters at zero and the registration time the ledger time of this call, in
\* the legacy contract and in the current one.
C33_ReRegistrationResets ==
    [][old_last'.op = "register_resolver" =>
       \A r \in ResolverAddrs, c \in PairCollaterals :
          PairRegisterResolver("carol", r, c) /\ old_last'.err = "Ok" =>
              /\ old_resolvers' = [x \in DOMAIN old_resolvers \cup {r} |->
                                      IF x = r
                                      THEN [collateral |-> c, is_active |-> TRUE,
                                            total_swaps |-> 0, successful_swaps |-> 0,
                                            registered_at |-> now]
                                      ELSE old_resolvers[x]]
              /\ last'.err = "Ok"
              /\ resolvers'[r] = [resolver |-> r, collateral_token |-> "token",
                                  min_collateral |-> c, is_active |-> TRUE,
                                  total_resolved |-> 0, created_at |-> now]]_vars

\* carol, registered at time 0 and named by a swap created then, was registered
\* again at time 3601: her record is that of a fresh registration.
C33_Witness ==
    /\ old_last = Call("register_resolver", None, "Ok")
    /\ now = 3601
    /\ \E oid \in DOMAIN old_swaps :
          old_swaps[oid].resolver = Some("carol") /\ old_swaps[oid].created_at = 0
    /\ old_resolvers["carol"].registered_at = 3601
    /\ old_resolvers["carol"].total_swaps = 0
    /\ old_resolvers["carol"].is_active
    /\ resolvers["carol"].created_at = 3601

\* C32: deactivating or registering again a resolver changes the outcome of no
\* later claim or refund: for every swap of either contract, every caller and
\* every preimage, the call succeeds or fails with the same error after the
\* step as it would have before it.
C32_ResolverConsultedAtCreationOnly ==
    [][old_last'.op \in {"register_resolver", "deactivate_resolver"} =>
       \A caller \in Addresses :
          /\ \A id \in SwapIds :
                /\ refund_swap_result(caller, id)' = refund_swap_result(caller, id)
                /\ \A p \in Bytes32 :
                      claim_swap_result(caller, id, p)' = claim_swap_result(caller, id, p)
          /\ \A oid \in DOMAIN old_swaps :
                /\ refund_funds_result(caller, oid)' = refund_funds_result(caller, oid)
                /\ \A p \in Bytes32 :
                      claim_funds_result(caller, oid, p)' = claim_funds_result(caller, oid, p)]_vars

\* carol was deactivated while a swap naming her was open in both contracts,
\* and bob's claim of it with the preimage still succeeds in both.
C32_Witness ==
    /\ old_last = Call("deactivate_resolver", None, "Ok")
    /\ "swap_even" \in DOMAIN swaps
    /\ swaps["swap_even"].resolver = Some("carol")
    /\ claim_swap_result("bob", "swap_even", 0) = "Ok"
    /\ OldIdOf("swap_even") # None
    /\ old_swaps[OldIdOf("swap_even")].resolver = Some("carol")
    /\ ~is_resolver_active("carol")
    /\ claim_funds_result("bob", OldIdOf("swap_even"), 0) = "Ok"

\* C39: sent the same claims and refunds of a swap they both created, the
\* current and the legacy contract return the same success or the same error at
\* every call, and the current status is Claimed exactly when the legacy
\* claimed flag is set and Refunded exactly when the legacy refunded flag is set.
C39_VariantsAgreeOnLifecycle ==
    [][/\ last'.op \in {"claim_swap", "refund_swap"} /\ old_last'.op \in {"claim_funds", "refund_funds"} =>
             \A id \in DOMAIN swaps :
                last'.id = id /\ OldIdOf(id) # None =>
                    /\ old_last'.id = OldIdOf(id)
                    /\ old_last'.err = last'.err
       /\ \A id \in DOMAIN swaps' :
             OldIdOf(id)' # None =>
                 /\ swaps'[id].status = "Claimed" <=> old_swaps'[OldIdOf(id)'].claimed
                 /\ swaps'[id].status = "Refunded" <=> old_swaps'[OldIdOf(id)'].refunded]_vars

\* One swap was refunded in both contracts at its timelock after the other had
\* been claimed in both.
C39_Witness ==
    /\ last = Call("refund_swap", "swap_even", "Ok")
    /\ old_last = Call("refund_funds", OldIdOf("swap_even"), "Ok")
    /\ old_swaps[OldIdOf("swap_even")].refunded
    /\ "swap_odd" \in DOMAIN swaps
    /\ StatusOf("swap_odd") = "Claimed"
    /\ OldIdOf("swap_odd") # None
    /\ old_swaps[OldIdOf("swap_odd")].claimed

\* The calls on one swap that change it: <<operation, caller, preimage>>.
SwapOps ==
    {<<"claim_swap", c, p>> : c \in Addresses, p \in Bytes32}
        \cup {<<op, c, 0>> : op \in {"refund_swap", "mark_swap_failed"}, c \in Addresses}

\* The call `op` made on the swap `id`.
DoOp(op, id) ==
    CASE op[1] = "claim_swap" -> claim_swap(op[2], id, op[3])
      [] op[1] = "refund_swap" -> refund_swap(op[2], id)
      [] op[1] = "mark_swap_failed" -> mark_swap_failed(op[2], id)

\* What the call `op` on the swap `id` returns in the present state.
ResultOf(op, id) ==
    CASE op[1] = "claim_swap" -> claim_swap_result(op[2], id, op[3])
      [] op[1] = "refund_swap" -> refund_swap_result(op[2], id)
      [] op[1] = "mark_swap_failed" -> mark_swap_failed_result(op[2], id)

\* The record of the swap `id` once the call `op` on it has returned.
SwapAfter(op, id) ==
    IF ResultOf(op, id) # "Ok" THEN swaps[id]
    ELSE CASE op[1] = "claim_swap" -> claimed_swap(swaps[id], op[3])
           [] op[1] = "refund_swap" -> refunded_swap(swaps[id])
           [] op[1] = "mark_swap_failed" -> failed_swap(swaps[id])

\* What the call `op` on the swap `id` adds to total_swaps_completed.
CompletedBy(op, id) ==
    IF op[1] = "claim_swap" /\ ResultOf(op, id) = "Ok" THEN 1 ELSE 0

\* The instance storage apart from the completion counter.
ConfigAndCreation == [k \in DOMAIN instance \ {"TotalSwapsCompleted"} |-> instance[k]]

\* C34: for two distinct stored swaps A and B and any claim_swap, refund_swap
\* or mark_swap_failed on each, made at the same ledger time, the call on A
\* followed by the call on B and the call on B followed by the call on A return
\* the same results, those each call returns when made alone, and end in the
\* same state: each swap as its own call leaves it, the completion counter
\* raised by the number of successful claims, and nothing else changed.
C34_DifferentSwapsCommute ==
    \A pair \in {p \in SUBSET DOMAIN swaps : Cardinality(p) = 2} :
     \A A \in {CHOOSE id \in pair : TRUE}, B \in pair :
      A # B =>
       \A opA, opB \in SwapOps :
          \A ea \in {ResultOf(opA, A)}, eb \in {ResultOf(opB, B)},
             final \in {[swaps EXCEPT ![A] = SwapAfter(opA, A), ![B] = SwapAfter(opB, B)]},
             completed \in {get_total_swaps_completed + CompletedBy(opA, A) + CompletedBy(opB, B)},
             rest \in {<<ConfigAndCreation, resolvers, user_swaps, now>>} :
                /\ ENABLED (/\ DoOp(opA, A)
                            /\ last'.err = ea
                            /\ (ENABLED (/\ DoOp(opB, B)
                                         /\ last'.err = eb
                                         /\ swaps' = final
                                         /\ get_total_swaps_completed' = completed
                                         /\ <<ConfigAndCreation, resolvers, user_swaps, now>>' = rest))')
                /\ ENABLED (/\ DoOp(opB, B)
                            /\ last'.err = eb
                            /\ (ENABLED (/\ DoOp(opA, A)
                                         /\ last'.err = ea
                                         /\ swaps' = final
                                         /\ get_total_swaps_completed' = completed
                                         /\ <<ConfigAndCreation, resolvers, user_swaps, now>>' = rest))')

\* Two swaps are open at the timelock of the first: a refund of the first and a
\* claim of the second can both succeed.
C34_Witness ==
    /\ DOMAIN swaps = {"swap_even", "swap_odd"}
    /\ now = 3601
    /\ has_admin
    /\ refund_swap_result("alice", "swap_even") = "Ok"
    /\ claim_swap_result("bob", "swap_odd", 0) = "Ok"

\* C35: no swap stays locked forever. A swap that is neither Claimed nor
\* Refunded (Pending or Failed) can be refunded by its sender at every ledger
\* time at or after its timelock; and while the ledger keeps closing and the
\* sender keeps asking, every stored swap eventually is Claimed or Refunded.
C35_NoSwapLockedForever ==
    /\ [](\A id \in DOMAIN swaps :
             StatusOf(id) \notin {"Claimed", "Refunded"} /\ now >= swaps[id].timelock =>
                 refund_swap_result(swaps[id].sender, id) = "Ok")
    /\ \A id \in SwapIds :
          [](id \in DOMAIN swaps => <>(id \in DOMAIN swaps /\ StatusOf(id) \in {"Claimed", "Refunded"}))

\* A swap marked Failed was refunded by its sender once its timelock was
\* reached, while the other swap, Failed as well, is past its timelock.
C35_Witness ==
    /\ DOMAIN swaps = {"swap_even", "swap_odd"}
    /\ last = Call("refund_swap", "swap_even", "Ok")
    /\ StatusOf("swap_even") = "Refunded"
    /\ StatusOf("swap_odd") = "Failed"
    /\ now >= swaps["swap_odd"].timelock
    /\ refund_swap_result("alice", "swap_odd") = "Ok"

====
